---- MODULE Spec2Model ----
(***************************************************************************)
(* Agent orchestration core of easy-agent: the ReAct loop                  *)
(* (Agent.StreamRunWithSessionAndImages / _runIteration), the parallel     *)
(* tool executors (Agent.handleToolCalls / execTool), the confirmation     *)
(* broker (ConfirmationManager), the session store (MemoryV3), the prompt  *)
(* templates (PromptManager), the tool registry (ToolRegistry) and the     *)
(* HTTP and WebSocket hosts of a run.                                      *)
(***************************************************************************)
EXTENDS Integers, Sequences, FiniteSets, TLC

\* ------------------------------------------------------------------ bounds
\* agent.max_iterations of the configuration under check
MaxIterations == 3
\* tool calls carried by one assistant message, in the whole-loop specification
MaxCalls == 1
\* tool calls carried by one assistant message, in the one-iteration specification
MaxParallel == 2
\* lines one tool writes to its output stream
MaxOut == 1
\* confirmation requests registered with the broker by the broker-only spec
MaxRequests == 3

\* mutation tasks clients hand to the session store; a request starts while
\* the store has been handed none and runs to its end
MaxTasks == 2
\* starts of the process over one disk (the first start included)
MaxBoots == 2
\* times the writer's ticker fires
MaxTicks == 1
\* capacity of the store's write queue in the configuration under check
WriteQueueCapacity == 1
\* WithBatchSize of the configuration under check
BatchSize == 2
\* WithSessionLoadLimit of the configuration under check
SessionLoadLimit == 2

\* failures of os.WriteFile and os.Rename on memory.json and its temporary file
MaxDiskErrors == 1

\* ------------------------------------------------------------------ strings
\* Strings the code inspects are sequences of one-character strings.
Upper == <<"H", "F", "Y", "E", "S">>
LowerOf == <<"h", "f", "y", "e", "s">>

ToLowerChar(c) ==
    IF \E k \in 1..Len(Upper) : Upper[k] = c
    THEN LowerOf[CHOOSE k \in 1..Len(Upper) : Upper[k] = c]
    ELSE c

\* strings.ToLower
ToLower(s) == [k \in 1..Len(s) |-> ToLowerChar(s[k])]

RECURSIVE TrimLeft(_)
TrimLeft(s) == IF s # <<>> /\ Head(s) = " " THEN TrimLeft(Tail(s)) ELSE s

RECURSIVE TrimRight(_)
TrimRight(s) ==
    IF s # <<>> /\ s[Len(s)] = " " THEN TrimRight(SubSeq(s, 1, Len(s) - 1)) ELSE s

\* strings.TrimSpace
TrimSpace(s) == TrimRight(TrimLeft(s))

\* strings.Contains
Contains(s, sub) ==
    \E k \in 0..(Len(s) - Len(sub)) : SubSeq(s, k + 1, k + Len(sub)) = sub

\* ------------------------------------------------------------------ inputs
S_hi == <<"H", "i", " ">>
S_find == <<"F", "i", "n", "d", " ", "&", " ", "s", "a", "v", "e">>
S_tell == <<"t", "e", "l", "l">>
Prompts == {S_hi, S_find, S_tell}

\* the tool registry after registerDefaultTools (three of the default tools)
Registered == {"web_search", "write_file", "run_code"}
\* the registered tools whose IsSensitive() is true
Sensitive == {"write_file", "run_code"}
\* names an LLM may put in a tool call; "ghost" is registered nowhere
ToolNames == {"web_search", "write_file", "run_code", "ghost"}
ArgSet == {"x", "y"}
ToolCall == [name : ToolNames, args : ArgSet]

\* tool_validation.keywords of the configuration
KeywordTools == {"web_search", "write_file", "run_code"}
Keywords(t) ==
    IF t = "web_search" THEN {<<"f", "i", "n", "d">>, <<"s", "e", "a", "r", "c", "h">>}
    ELSE IF t = "write_file" THEN {<<"f", "i", "l", "e">>, <<"s", "a", "v", "e">>}
    ELSE {<<"r", "u", "n">>, <<"c", "o", "d", "e">>}

Greetings == {<<"h", "e", "l", "l", "o">>, <<"h", "i">>, <<"h", "e", "y">>}
GreetingMaxLen == 30

DeniedText == "User denied the execution of this tool."
LimitText == "Iteration limit reached"

\* ------------------------------------------------------------------ state
VARIABLES
    prompt,            \* the request's prompt
    maxIterations,     \* Agent.maxIterations, from the configuration
    pc,                \* position of StreamRunWithSessionAndImages
    iterations,        \* iterations of the loop started so far
    lastToolCallHash,  \* hash retained from the last executed tool message
    messages,          \* working history of the request
    session,           \* messages handed to the session store
    notes,             \* notes recorded in the store
    events,            \* everything sent on the event sink, in order
    closed,            \* the sink has been closed
    msg,               \* what processLLMStream returned to the iteration under way
    calls,             \* ToolCalls handed to handleToolCalls
    epc,               \* position of each executor goroutine
    econf,             \* confirmation id each executor registered (0: none)
    tool,              \* state of each executor's execTool goroutine
    tres,              \* what execTool returned: "ok", "err" or "unknown"
    pending,           \* bytes written to the tool pipe and not yet read
    ended,             \* the tool's output stream has ended for the scanner
    nout,              \* lines the tool has written
    ran,               \* <<iteration, index, name>> of every call whose Run was called
    toolResults,       \* the buffered channel of tool-role messages
    requests,          \* ids in ConfirmationManager.requests
    chans,             \* every channel the broker created, by id
    fault              \* a fault of the broker: panic or blocked send

\* the session store (MemoryV3) and the files under its base directory
VARIABLES
    sessions,          \* MemoryV3.sessions: id -> [count, msgs, touched]
    currentSessionID,  \* MemoryV3.currentSessionID ("" for none)
    conversations,     \* MemoryV3.conversations
    memNotes,          \* MemoryV3.notes
    dirty,             \* MemoryV3.dirty
    flushing,          \* MemoryV3.flushing
    marking,           \* callers inside enqueueWrite, past its select and before its store of dirty
    writeQueue,        \* MemoryV3.writeQueue: tasks sent and not yet received
    memClosed,         \* MemoryV3.closed has been closed
    bufferTasks,       \* writerLoop's bufferTasks
    wpc,               \* position of the writer goroutine
    wret,              \* where the writer continues after runTasks
    pret,              \* where the writer continues after persistStore
    ri,                \* index of the task runTasks is at
    tn,                \* the tick branch's counter n
    ticks,             \* times the writer's ticker has fired
    wsnap,             \* the snapshot persistStore took in the writer
    fb,                \* tasks handed to fallback goroutines, with their progress
    cpc,               \* position of the caller of Close
    csnap,             \* the snapshot persistStore took in Close
    rpc,               \* position of a request in prepareSessionAndMessages
    rsid,              \* the session id of that request
    rok,               \* what its AddMessageToSession returned
    ret,               \* the last SetCurrentSession or AddMessageToSession call and its result
    nextTask,          \* tasks created so far (they are numbered in enqueue order)
    applied,           \* numbers of the tasks in the order they changed the memory
    boots,             \* starts of the process so far
    diskErrors,        \* os.WriteFile and os.Rename calls on memory.json(.tmp) that returned an error
    memFile,           \* content of memory.json ("absent" or a snapshot)
    tmpFile,           \* content of memory.json.tmp ("absent", "partial" or a snapshot)
    tmpWriters,        \* goroutines inside os.WriteFile on memory.json.tmp
    logs               \* sessions/<id>: the lines of each session log

\* the host of a request: its context, the goroutines it leaves behind and
\* the HTTP response of POST /agent
VARIABLES
    cancelled,         \* the request's context has been cancelled
    producers,         \* LLM stream producer goroutines that have not finished
    response           \* what AgentHandler answered (status 0: nothing yet)

\* parts of the program that are also driven on their own: the validation of
\* a tool call, the prompt templates, the tool registry, the turns of a
\* session and the WebSocket transport
VARIABLES
    validation,        \* the last validateToolCall call: its inputs and what it did
    templates,         \* PromptManager: what Render finds for each template name
    tools,             \* ToolRegistry.tools: the registered names, in the order of their slots in the map
    metadata,          \* the lists GetMetadata returned, with the registry they were taken from
    turn,              \* requests started on the session so far
    forwarding,        \* handlePromptWS is in its range loop over the event sink
    cancelFunc,        \* Client.cancelFunc: the run whose cancel it holds (0: nil)
    runs               \* the handlePromptWS goroutines of a WebSocket connection

dataVars == <<sessions, currentSessionID, conversations, memNotes, applied>>
queueVars == <<writeQueue, fb, nextTask>>
writerVars == <<bufferTasks, wpc, wret, pret, ri, tn, ticks, wsnap>>
closeVars == <<memClosed, cpc, csnap>>
reqVars == <<rpc, rsid, rok>>
fileVars == <<memFile, tmpFile, tmpWriters>>
memVars == <<dataVars, queueVars, writerVars, closeVars, reqVars, dirty, flushing, marking, ret, boots, diskErrors>>
diskVars == <<fileVars, logs>>
storeVars == <<memVars, diskVars>>

hostVars == <<cancelled, producers, response>>
partVars == <<validation, templates, tools, metadata, turn, forwarding, cancelFunc, runs>>

brokerVars == <<requests, chans, fault>>
execVars == <<calls, epc, econf, tool, tres, pending, ended, nout, ran, toolResults>>
loopVars == <<prompt, maxIterations, msg, storeVars, hostVars, partVars, pc, iterations, lastToolCallHash, messages, session, notes, closed>>
vars == <<loopVars, events, execVars, brokerVars>>
\* everything but the session store
agentVars == <<prompt, maxIterations, msg, hostVars, partVars, pc, iterations, lastToolCallHash, messages, session,
               notes, closed, events, execVars, brokerVars>>

\* ------------------------------------------------------------------ records
\* a StreamEvent; it and ix tell which iteration and which call sent it
EvAt(it, type, name, ix, info) ==
    [type |-> type, tool |-> name, it |-> it, ix |-> ix, info |-> info]

Ev(type, name, ix, info) == EvAt(iterations, type, name, ix, info)

Msg(role, content, name, tcs) ==
    [role |-> role, content |-> content, name |-> name, toolCalls |-> tcs]

Idx == DOMAIN calls

\* ------------------------------------------------------------------ broker
NewChan == [buf |-> <<>>, closed |-> FALSE, sent |-> <<>>]

\* id of the next request: uuid.New() never repeats
NextId == Len(chans) + 1

\* ConfirmationManager.RegisterRequest
RegisterRequest ==
    /\ fault = "none"
    /\ requests' = requests \cup {NextId}
    /\ chans' = Append(chans, NewChan)
    /\ UNCHANGED fault

\* ResolveRequest without the delete: the entry stays in the map
ResolveRequestKeepsEntry(id, allowed) ==
    /\ fault = "none"
    /\ IF id \in requests
       THEN IF chans[id].closed
            THEN fault' = "send on closed channel" /\ UNCHANGED <<requests, chans>>
            ELSE /\ chans' = [chans EXCEPT ![id] =
                                [buf |-> Append(@.buf, allowed), closed |-> TRUE,
                                 sent |-> Append(@.sent, allowed)]]
                 /\ UNCHANGED <<requests, fault>>
       ELSE UNCHANGED <<requests, chans, fault>>

\* ConfirmationManager.ResolveRequest
ResolveRequest(id, allowed) ==
    /\ fault = "none"
    /\ IF id \in requests
       THEN IF chans[id].closed
            THEN fault' = "send on closed channel" /\ UNCHANGED <<requests, chans>>
            ELSE IF Len(chans[id].buf) >= 1
            THEN fault' = "send blocked" /\ UNCHANGED <<requests, chans>>
            ELSE /\ chans' = [chans EXCEPT ![id] =
                                [buf |-> Append(@.buf, allowed), closed |-> TRUE,
                                 sent |-> Append(@.sent, allowed)]]
                 /\ requests' = requests \ {id}
                 /\ UNCHANGED fault
       ELSE UNCHANGED <<requests, chans, fault>>

\* the goroutine RegisterRequest starts for request id: sleep 5 minutes, then
\* clean up.  Once it has run the id is no longer in requests, so a second
\* run of this step changes nothing and the goroutine needs no state.
ExpireRequest(id) ==
    /\ fault = "none"
    /\ id \in 1..Len(chans)
    /\ IF id \in requests
       THEN IF chans[id].closed
            THEN fault' = "close of closed channel" /\ UNCHANGED <<requests, chans>>
            ELSE /\ chans' = [chans EXCEPT ![id].closed = TRUE]
                 /\ requests' = requests \ {id}
                 /\ UNCHANGED fault
       ELSE UNCHANGED <<requests, chans, fault>>

\* ------------------------------------------------------------------ validation
\* isSimpleGreeting (the ASCII greetings of the built-in list)
isSimpleGreeting(p) ==
    LET q == ToLower(TrimSpace(p))
    IN  IF Len(q) > GreetingMaxLen THEN FALSE ELSE q \in Greetings

\* the heuristic stage without its rejection of tools absent from the mapping
isReasonableUnmappedAccepted(p, tc) ==
    IF isSimpleGreeting(p) THEN FALSE
    ELSE IF tc.name \notin KeywordTools THEN TRUE
    ELSE \E kw \in Keywords(tc.name) : Contains(ToLower(p), kw)

\* Agent.isReasonableToolCall: the heuristic stage
isReasonableToolCall(p, tc) ==
    IF isSimpleGreeting(p) THEN FALSE
    ELSE IF tc.name \notin KeywordTools THEN FALSE
    ELSE \E kw \in Keywords(tc.name) : Contains(ToLower(p), kw)

\* what the validation LLM call can come back with
A_yes == <<"Y", "E", "S">>
A_no == <<"n", "o">>
\* the one character U+662F ("yes"), written "shi" here
A_shi == <<"shi">>
\* render: the tool_validation template rendered; err, choices, answer: what
\* CallWithContext returned
ValidatorReplies ==
    { [render |-> FALSE, err |-> FALSE, choices |-> 0, answer |-> <<>>],
      [render |-> TRUE, err |-> TRUE, choices |-> 0, answer |-> <<>>],
      [render |-> TRUE, err |-> FALSE, choices |-> 0, answer |-> <<>>],
      [render |-> TRUE, err |-> FALSE, choices |-> 1, answer |-> A_yes],
      [render |-> TRUE, err |-> FALSE, choices |-> 1, answer |-> A_shi],
      [render |-> TRUE, err |-> FALSE, choices |-> 1, answer |-> A_no] }

\* the model-assisted stage failing closed on an error of the LLM call
validateToolCallFailsClosed(p, tc, reply) ==
    IF ~isReasonableToolCall(p, tc) THEN FALSE
    ELSE IF ~reply.render THEN TRUE
    ELSE IF reply.err THEN FALSE
    ELSE IF reply.choices > 0
         THEN \/ Contains(ToLower(TrimSpace(reply.answer)), <<"y", "e", "s">>)
              \/ Contains(TrimSpace(reply.answer), A_shi)
         ELSE TRUE

\* Agent.validateToolCall: heuristic stage, then the model-assisted stage
validateToolCall(p, tc, reply) ==
    IF ~isReasonableToolCall(p, tc) THEN FALSE
    ELSE IF ~reply.render THEN TRUE
    ELSE IF reply.err THEN TRUE
    ELSE IF reply.choices > 0
         THEN \/ Contains(ToLower(TrimSpace(reply.answer)), <<"y", "e", "s">>)
              \/ Contains(TrimSpace(reply.answer), A_shi)
         ELSE TRUE

\* validateToolCall reaches a.llm.CallWithContext
validationConsulted(p, tc, reply) == isReasonableToolCall(p, tc) /\ reply.render

\* hashToolCalls: SHA-256 of the JSON of the first call ("" for no calls)
EmptyHash == <<>>
hashToolCalls(tcs) ==
    IF Len(tcs) = 0 THEN EmptyHash ELSE <<tcs[1].name, tcs[1].args>>

\* the tool-call lists of at most n calls
CallLists(n) == UNION { [1..k -> ToolCall] : k \in 1..n }

\* ------------------------------------------------------------------ the session store
SessIds == {"s1", "s2"}

\* a ChatMessage handed to the store: its number and whether its JSON line
\* is longer than a bufio.Scanner token (64 KiB), as a message with images is
Message(n, size) == [id |-> n, size |-> size]
Sizes == {"short", "long"}

\* json.Marshal of a message, as one line of a session log
MarshalLine(m) == [kind |-> "json", id |-> m.id, size |-> m.size]
\* a line that is not the JSON of a message
CorruptLine == [kind |-> "corrupt", id |-> 0, size |-> "short"]
\* json.Unmarshal of a line succeeds
Parses(l) == l.kind = "json"
\* the message json.Unmarshal yields for a line that parses
UnmarshalLine(l) == [id |-> l.id, size |-> l.size]

\* a session that is not in the map
NoSession == [present |-> FALSE, count |-> 0, msgs |-> <<>>, touched |-> 0]

\* MemoryStorePersist: what persistStore copies out of the memory
SnapshotOf(cv, nt, ss, cur) ==
    [conv |-> cv, notes |-> nt,
     meta |-> [id \in SessIds |-> [present |-> ss[id].present, count |-> ss[id].count,
                                   touched |-> ss[id].touched]],
     cur |-> cur]

EmptySnapshot == SnapshotOf(<<>>, <<>>, [id \in SessIds |-> NoSession], "")

\* a file holding a snapshot, a file cut short, no file
FullFile(sn) == [state |-> "full", data |-> sn]
PartialFile == [state |-> "partial", data |-> EmptySnapshot]
AbsentFile == [state |-> "absent", data |-> EmptySnapshot]

\* a mutation task: the closure enqueueWrite is handed, numbered in call order
Task(op, sid, m, n) == [op |-> op, sid |-> sid, msg |-> m, n |-> n]

\* the last k elements of a sequence
LastN(q, k) == IF Len(q) > k THEN SubSeq(q, Len(q) - k + 1, Len(q)) ELSE q

\* loadFromDisk: the lines scanner.Scan() delivers; Scan stops for good at a
\* line longer than its buffer
RECURSIVE Scanned(_)
Scanned(ls) ==
    IF ls = <<>> THEN <<>>
    ELSE IF Head(ls).size = "long" THEN <<>>
    ELSE <<Head(ls)>> \o Scanned(Tail(ls))

\* loadFromDisk: the messages of the lines that parse, in order
RECURSIVE Parsed(_)
Parsed(ls) ==
    IF ls = <<>> THEN <<>>
    ELSE IF Parses(Head(ls)) THEN <<UnmarshalLine(Head(ls))>> \o Parsed(Tail(ls))
    ELSE Parsed(Tail(ls))

\* loadFromDisk: the sessions of memory.json, then the session logs on top;
\* a memory.json that does not parse ends the load before the logs are read.
\* Of the messages of a log the last SessionLoadLimit are kept while the
\* lines are scanned, and a session is set only if some are left.
LoadSessions(mf, lg) ==
    IF mf.state = "partial" THEN [id \in SessIds |-> NoSession]
    ELSE
    [id \in SessIds |->
        LET meta == IF mf.state = "full" THEN mf.data.meta[id]
                    ELSE [present |-> FALSE, count |-> 0, touched |-> 0]
            all == Parsed(Scanned(lg[id]))
            msgs == LastN(all, SessionLoadLimit)
        IN  IF Len(msgs) > 0
            THEN [present |-> TRUE, count |-> Len(all),
                  msgs |-> msgs,
                  touched |-> IF meta.present THEN meta.touched ELSE 0]
            ELSE [present |-> meta.present, count |-> meta.count,
                  msgs |-> <<>>, touched |-> meta.touched]]

\* no SetCurrentSession or AddMessageToSession call has returned yet
NoCall == [op |-> "", sid |-> "", val |-> FALSE]

\* NewMemoryV3 over the files mf and lg: the loaded memory, an empty queue and
\* a writer goroutine at the top of its loop
Started(mf, lg) ==
    /\ sessions = LoadSessions(mf, lg)
    /\ currentSessionID = (IF mf.state = "full" THEN mf.data.cur ELSE "")
    /\ conversations = (IF mf.state = "full" THEN mf.data.conv ELSE <<>>)
    /\ memNotes = (IF mf.state = "full" THEN mf.data.notes ELSE <<>>)
    /\ dirty = 0 /\ flushing = 0 /\ marking = 0
    /\ writeQueue = <<>> /\ memClosed = FALSE /\ bufferTasks = <<>>
    /\ wpc = "select" /\ wret = "select" /\ pret = "select" /\ ri = 0 /\ tn = 0
    /\ ticks = 0
    /\ wsnap = EmptySnapshot
    /\ fb = {}
    /\ cpc = "idle" /\ csnap = EmptySnapshot
    /\ rpc = "idle" /\ rsid = "" /\ rok = FALSE
    /\ ret = NoCall
    /\ nextTask = 0 /\ applied = <<>>

\* no reply of the LLM is at hand: what msg holds outside an iteration
NoReply == [content |-> "", toolCalls |-> <<>>, err |-> ""]

\* no response written yet
NoResponse == [status |-> 0, answer |-> <<>>]

\* a request whose context is live, before any LLM call and any response
HostIdle ==
    /\ cancelled = FALSE
    /\ producers = 0
    /\ response = NoResponse

\* no validateToolCall call yet
NoValidation ==
    [done |-> FALSE, tc |-> [name |-> "", args |-> ""],
     reply |-> [render |-> FALSE, err |-> FALSE, choices |-> 0, answer |-> <<>>],
     consulted |-> FALSE, accepted |-> FALSE]

\* what one call of Agent.validateToolCall did: the call it was given, what
\* its LLM call came back with, whether it reached a.llm.CallWithContext and
\* what it returned
Validated(p, tc, reply) ==
    [done |-> TRUE, tc |-> tc, reply |-> reply,
     consulted |-> validationConsulted(p, tc, reply),
     accepted |-> validateToolCall(p, tc, reply)]

\* the templates Render is asked for
TemplateNames == {"system_default", "force_text_response", "duplicate_tool_call"}

\* the parts as they are in a process that serves one request of a new
\* session over HTTP: every template file in place, the built-in tools
\* registered, a handler that reads the sink to its end
PartsIdle ==
    /\ validation = NoValidation
    /\ templates = [n \in TemplateNames |-> "ok"]
    /\ tools = <<"web_search", "run_code", "write_file">>
    /\ metadata = <<>>
    /\ turn = 1
    /\ forwarding = TRUE
    /\ cancelFunc = 0
    /\ runs = <<>>

\* the store of a process whose model leaves the store alone
StoreOff ==
    /\ Started(AbsentFile, [id \in SessIds |-> <<>>])
    /\ boots = 1
    /\ diskErrors = 0
    /\ memFile = AbsentFile /\ tmpFile = AbsentFile /\ tmpWriters = {}
    /\ logs = [id \in SessIds |-> <<>>]

\* the base directories a process may start over: an empty one, and one left
\* by an earlier run with a session of three messages and a torn line (the
\* messages of earlier runs have numbers below those of this run's tasks)
NoLogs == [id \in SessIds |-> <<>>]
OldLog ==
    << MarshalLine(Message(-3, "short")), CorruptLine,
       MarshalLine(Message(-2, "short")), MarshalLine(Message(-1, "short")) >>
OldSessions ==
    [id \in SessIds |-> IF id = "s1"
                        THEN [present |-> TRUE, count |-> 3, msgs |-> <<>>, touched |-> 0]
                        ELSE NoSession]
InitialDisks ==
    { [mem |-> AbsentFile, logs |-> NoLogs],
      [mem |-> FullFile(SnapshotOf(<<>>, <<>>, OldSessions, "s1")),
       logs |-> [NoLogs EXCEPT !["s1"] = OldLog]] }


\* ------------------------------------------------------------------ the loop
\* the state of a request before it starts, all but the configuration
Idle ==
    /\ prompt \in Prompts
    /\ pc = "start"
    /\ iterations = 0
    /\ lastToolCallHash = EmptyHash
    /\ messages = <<>>
    /\ session = <<>>
    /\ notes = <<>>
    /\ events = <<>>
    /\ closed = FALSE
    /\ msg = NoReply
    /\ calls = <<>>
    /\ epc = <<>>
    /\ econf = <<>>
    /\ tool = <<>>
    /\ tres = <<>>
    /\ pending = <<>>
    /\ ended = <<>>
    /\ nout = <<>>
    /\ ran = {}
    /\ toolResults = <<>>
    /\ requests = {}
    /\ chans = <<>>
    /\ fault = "none"
    /\ StoreOff
    /\ HostIdle
    /\ PartsIdle

Init == Idle /\ maxIterations = MaxIterations

\* what a template file holds when it is in place
TemplateText(name) == IF name = "system_default" THEN "system prompt" ELSE name

\* PromptManager.Render: the rendered text, or "" and an error when the
\* template cannot be loaded ("missing") or fails to parse or execute
\* ("broken")
Render(name) ==
    IF templates[name] = "ok"
    THEN [text |-> TemplateText(name), err |-> FALSE]
    ELSE [text |-> "", err |-> TRUE]

\* PromptManager.GetSystemPrompt without a custom system prompt
FallbackSystemPrompt == "built-in system prompt"
GetSystemPrompt ==
    IF Render("system_default").err THEN FallbackSystemPrompt ELSE Render("system_default").text

\* Agent.prepareSessionAndMessages, for a request that creates its session
Prepare ==
    /\ pc = "start"
    /\ pc' = "loop"
    /\ messages' = <<Msg("system", GetSystemPrompt, "", <<>>), Msg("user", "prompt", "", <<>>)>>
    /\ session' = <<Msg("user", "prompt", "", <<>>)>>
    /\ UNCHANGED <<prompt, maxIterations, msg, storeVars, hostVars, partVars, iterations, lastToolCallHash, notes, closed, events, execVars, brokerVars>>

\* With a cancelled context the HTTP request of the LLM client fails, so a
\* stream that is awaited after the cancellation can only end in an error.

\* the loop condition off by one
LoopCondOffByOne == iterations <= maxIterations

\* the loop condition of StreamRunWithSessionAndImages
LoopCond == iterations < maxIterations

\* how processLLMStream comes to return an error: the stream call failed and
\* the producer wrote the error itself ("call"), the stream carried an error
\* frame ("frame"), or the scanner gave up on a line longer than its buffer
\* ("read")
LLMFailures == {"call", "frame", "read"}

\* the message of the error event processLLMStream sends: the frame it
\* forwards as it was decoded, or its own text for a read error
StreamErrorText(cause) == IF cause = "read" THEN "Stream read error" ELSE "stream error"
StreamErrorTexts == { StreamErrorText(c) : c \in LLMFailures }

\* processLLMStream up to its first send: GetMetadata, the pipe and the
\* thinking event; the producer goroutine starts its LLM call right after
StreamThinking ==
    /\ pc = "loop" /\ LoopCond
    /\ iterations' = iterations + 1
    /\ events' = Append(events, EvAt(iterations + 1, "thinking", "", 0, ""))
    /\ pc' = "stream"
    /\ UNCHANGED <<prompt, maxIterations, msg, storeVars, hostVars, partVars, lastToolCallHash, messages, session, notes, closed, execVars, brokerVars>>

\* processLLMStream's scan loop comes to an error.  The producer has closed
\* its pipe writer after a failed call; after an error frame or a read error
\* it still has the rest of the stream to write (rest = TRUE) to a pipe
\* nobody reads any more, unless the stream ended right there.
StreamError(cause, rest) ==
    /\ pc = "stream"
    /\ cause = "call" => ~rest
    /\ cancelled => cause = "call"
    /\ msg' = [NoReply EXCEPT !.err = cause]
    /\ producers' = producers + (IF rest THEN 1 ELSE 0)
    /\ pc' = "reply"
    /\ UNCHANGED <<prompt, maxIterations, storeVars, partVars, cancelled, response, iterations, lastToolCallHash, messages, session, notes, closed, events, execVars, brokerVars>>

\* processLLMStream's scan loop ends on a stream without tool calls
StreamText(content) ==
    /\ pc = "stream" /\ ~cancelled
    /\ msg' = [NoReply EXCEPT !.content = content]
    /\ pc' = "reply"
    /\ UNCHANGED <<prompt, maxIterations, storeVars, hostVars, partVars, iterations, lastToolCallHash, messages, session, notes, closed, events, execVars, brokerVars>>

\* processLLMStream's scan loop ends on a stream that carried tool calls
StreamToolCalls(tcs) ==
    /\ pc = "stream" /\ ~cancelled
    /\ msg' = [NoReply EXCEPT !.toolCalls = tcs]
    /\ pc' = "reply"
    /\ UNCHANGED <<prompt, maxIterations, storeVars, hostVars, partVars, iterations, lastToolCallHash, messages, session, notes, closed, events, execVars, brokerVars>>

\* processLLMStream sends its error event and returns the error;
\* _runIteration returns false
IterLLMError ==
    /\ pc = "reply" /\ msg.err # ""
    /\ events' = Append(events, Ev("error", "", 0, StreamErrorText(msg.err)))
    /\ msg' = NoReply
    /\ pc' = "after"
    /\ UNCHANGED <<prompt, maxIterations, storeVars, hostVars, partVars, iterations, lastToolCallHash, messages, session, notes, closed, execVars, brokerVars>>

\* _runIteration on a reply without tool calls and with a text: the
\* thinking event that announces the final answer
IterAnswerThinking ==
    /\ pc = "reply" /\ msg.err = "" /\ msg.toolCalls = <<>>
    /\ msg.content # ""
    /\ events' = Append(events, Ev("thinking", "", 0, ""))
    /\ pc' = "token"
    /\ UNCHANGED <<prompt, maxIterations, msg, storeVars, hostVars, partVars, iterations, lastToolCallHash, messages, session, notes, closed, execVars, brokerVars>>

\* _runIteration: the token event with the text
IterToken ==
    /\ pc = "token"
    /\ events' = Append(events, Ev("token", "", 0, msg.content))
    /\ pc' = "record"
    /\ UNCHANGED <<prompt, maxIterations, msg, storeVars, hostVars, partVars, iterations, lastToolCallHash, messages, session, notes, closed, execVars, brokerVars>>

\* _runIteration on a reply without tool calls: AddNote, AddMessageToSession
\* and the return of false, after the two events or, for an empty text,
\* without them
IterText ==
    /\ \/ pc = "record"
       \/ pc = "reply" /\ msg.err = "" /\ msg.toolCalls = <<>> /\ msg.content = ""
    /\ notes' = Append(notes, msg.content)
    /\ session' = Append(session, Msg("assistant", msg.content, "", <<>>))
    /\ msg' = NoReply
    /\ pc' = "after"
    /\ UNCHANGED <<prompt, maxIterations, storeVars, hostVars, partVars, iterations, lastToolCallHash, messages, closed, events, execVars, brokerVars>>

\* _runIteration on a reply with tool calls: the thinking event before the
\* validation
IterValidating ==
    /\ pc = "reply" /\ msg.err = "" /\ msg.toolCalls # <<>>
    /\ events' = Append(events, Ev("thinking", "", 0, ""))
    /\ pc' = "validating"
    /\ UNCHANGED <<prompt, maxIterations, msg, storeVars, hostVars, partVars, iterations, lastToolCallHash, messages, session, notes, closed, execVars, brokerVars>>

\* what validateToolCall's own LLM call can come back with: under a cancelled
\* context CallWithContext returns an error
ReplyPossible(reply) == cancelled => (~reply.render \/ reply.err)

\* _runIteration: the call of validateToolCall on the first tool call of the
\* message, with what its own LLM call comes back with if it is made; the
\* record lasts until _runIteration has acted on the result
IterValidate(reply) ==
    /\ pc = "validating" /\ ReplyPossible(reply)
    /\ validation' = Validated(prompt, msg.toolCalls[1], reply)
    /\ pc' = "validated"
    /\ UNCHANGED <<prompt, maxIterations, msg, storeVars, hostVars, templates, tools, metadata, turn, forwarding, cancelFunc, runs,
                   iterations, lastToolCallHash, messages, session, notes, closed, events, execVars, brokerVars>>

\* a validation rejection that also forgets the retained hash
IterRejectedForgets ==
    /\ pc = "validated"
    /\ ~validation.accepted
    /\ messages' = messages \o << Msg("assistant", "", "", msg.toolCalls),
                                 Msg("user", Render("force_text_response").text, "", <<>>) >>
    /\ lastToolCallHash' = EmptyHash
    /\ validation' = NoValidation
    /\ msg' = NoReply
    /\ pc' = "loop"
    /\ UNCHANGED <<prompt, maxIterations, storeVars, hostVars, templates, tools, metadata, turn, forwarding, cancelFunc, runs, iterations, session, notes, closed, events, execVars, brokerVars>>

\* _runIteration when validateToolCall returned false
IterRejected ==
    /\ pc = "validated"
    /\ ~validation.accepted
    /\ messages' = messages \o << Msg("assistant", "", "", msg.toolCalls),
                                 Msg("user", Render("force_text_response").text, "", <<>>) >>
    /\ validation' = NoValidation
    /\ msg' = NoReply
    /\ pc' = "loop"
    /\ UNCHANGED <<prompt, maxIterations, storeVars, hostVars, templates, tools, metadata, turn, forwarding, cancelFunc, runs, iterations, lastToolCallHash, session, notes, closed, events, execVars, brokerVars>>

\* _runIteration when the first tool call repeats the retained hash
IterDuplicate ==
    /\ pc = "validated"
    /\ validation.accepted
    /\ hashToolCalls(msg.toolCalls) = lastToolCallHash
    /\ messages' = Append(messages, Msg("user", Render("duplicate_tool_call").text, "", <<>>))
    /\ validation' = NoValidation
    /\ msg' = NoReply
    /\ pc' = "loop"
    /\ UNCHANGED <<prompt, maxIterations, storeVars, hostVars, templates, tools, metadata, turn, forwarding, cancelFunc, runs, iterations, lastToolCallHash, session, notes, closed, events, execVars, brokerVars>>

\* the dispatch without the duplicate guard
IterDispatchUnguarded ==
    /\ pc = "validated"
    /\ validation.accepted
    /\ lastToolCallHash' = hashToolCalls(msg.toolCalls)
    /\ messages' = Append(messages, Msg("assistant", "", "", msg.toolCalls))
    /\ session' = Append(session, Msg("assistant", "", "", msg.toolCalls))
    /\ calls' = msg.toolCalls
    /\ epc' = [i \in DOMAIN msg.toolCalls |-> "start"]
    /\ econf' = [i \in DOMAIN msg.toolCalls |-> 0]
    /\ tool' = [i \in DOMAIN msg.toolCalls |-> "idle"]
    /\ tres' = [i \in DOMAIN msg.toolCalls |-> "none"]
    /\ pending' = [i \in DOMAIN msg.toolCalls |-> 0]
    /\ ended' = [i \in DOMAIN msg.toolCalls |-> FALSE]
    /\ nout' = [i \in DOMAIN msg.toolCalls |-> 0]
    /\ toolResults' = <<>>
    /\ validation' = NoValidation
    /\ msg' = NoReply
    /\ pc' = "tools"
    /\ UNCHANGED <<prompt, maxIterations, storeVars, hostVars, templates, tools, metadata, turn, forwarding, cancelFunc, runs, iterations, notes, closed, events, ran, brokerVars>>

\* _runIteration from the accepted validation to the start of the executors
\* in handleToolCalls
IterDispatch ==
    /\ pc = "validated"
    /\ validation.accepted
    /\ hashToolCalls(msg.toolCalls) # lastToolCallHash
    /\ lastToolCallHash' = hashToolCalls(msg.toolCalls)
    /\ messages' = Append(messages, Msg("assistant", "", "", msg.toolCalls))
    /\ session' = Append(session, Msg("assistant", "", "", msg.toolCalls))
    /\ calls' = msg.toolCalls
    /\ epc' = [i \in DOMAIN msg.toolCalls |-> "start"]
    /\ econf' = [i \in DOMAIN msg.toolCalls |-> 0]
    /\ tool' = [i \in DOMAIN msg.toolCalls |-> "idle"]
    /\ tres' = [i \in DOMAIN msg.toolCalls |-> "none"]
    /\ pending' = [i \in DOMAIN msg.toolCalls |-> 0]
    /\ ended' = [i \in DOMAIN msg.toolCalls |-> FALSE]
    /\ nout' = [i \in DOMAIN msg.toolCalls |-> 0]
    /\ toolResults' = <<>>
    /\ validation' = NoValidation
    /\ msg' = NoReply
    /\ pc' = "tools"
    /\ UNCHANGED <<prompt, maxIterations, storeVars, hostVars, templates, tools, metadata, turn, forwarding, cancelFunc, runs, iterations, notes, closed, events, ran, brokerVars>>

\* ------------------------------------------------------------------ executors
\* handleToolCalls: registry lookup and, for a sensitive tool, RegisterRequest
ExecStart(i) ==
    /\ pc = "tools" /\ i \in Idx /\ epc[i] = "start"
    /\ IF calls[i].name \in Registered /\ calls[i].name \in Sensitive
       THEN /\ RegisterRequest
            /\ econf' = [econf EXCEPT ![i] = NextId]
            /\ epc' = [epc EXCEPT ![i] = "announce"]
       ELSE /\ epc' = [epc EXCEPT ![i] = "tool_start"]
            /\ UNCHANGED <<econf, brokerVars>>
    /\ UNCHANGED <<loopVars, events, calls, tool, tres, pending, ended, nout, ran, toolResults>>

\* handleToolCalls: the awaiting_confirmation event
ExecAnnounce(i) ==
    /\ pc = "tools" /\ i \in Idx /\ epc[i] = "announce"
    /\ events' = Append(events, Ev("awaiting_confirmation", calls[i].name, i, econf[i]))
    /\ epc' = [epc EXCEPT ![i] = "await"]
    /\ UNCHANGED <<loopVars, calls, econf, tool, tres, pending, ended, nout, ran, toolResults, brokerVars>>

\* a receive that takes the zero value of a closed channel for an approval
ReceivedClosedAllows(c) == IF Len(c.buf) > 0 THEN Head(c.buf) ELSE TRUE

\* what a receive on channel c yields, once it can proceed
CanReceive(c) == Len(c.buf) > 0 \/ c.closed

\* the value a receive on channel c yields: the buffered value, else the zero
\* value of a closed channel
Received(c) == IF Len(c.buf) > 0 THEN Head(c.buf) ELSE FALSE

\* handleToolCalls: allowed := <-ch and the branch on it
ExecReceive(i) ==
    /\ pc = "tools" /\ i \in Idx /\ epc[i] = "await"
    /\ CanReceive(chans[econf[i]])
    /\ chans' = [chans EXCEPT ![econf[i]].buf = IF Len(@) > 0 THEN Tail(@) ELSE @]
    /\ epc' = [epc EXCEPT ![i] = IF Received(chans[econf[i]]) THEN "tool_start" ELSE "denied"]
    /\ UNCHANGED <<loopVars, events, calls, econf, tool, tres, pending, ended, nout, ran,
                   toolResults, requests, fault>>

\* the denied branch without its return: the call goes on to tool_start
ExecDeniedNoReturn(i) ==
    /\ pc = "tools" /\ i \in Idx /\ epc[i] = "denied"
    /\ events' = Append(events, Ev("thinking", calls[i].name, i, "denied"))
    /\ epc' = [epc EXCEPT ![i] = "tool_start"]
    /\ UNCHANGED <<loopVars, calls, econf, tool, tres, pending, ended, nout, ran, toolResults, brokerVars>>

\* handleToolCalls: the thinking event of a denied call
ExecDenied(i) ==
    /\ pc = "tools" /\ i \in Idx /\ epc[i] = "denied"
    /\ events' = Append(events, Ev("thinking", calls[i].name, i, "denied"))
    /\ epc' = [epc EXCEPT ![i] = "deny_result"]
    /\ UNCHANGED <<loopVars, calls, econf, tool, tres, pending, ended, nout, ran, toolResults, brokerVars>>

\* the tool-role message of a denied call
DeniedMessage(i) == Msg("tool", DeniedText, calls[i].name, <<>>)

\* handleToolCalls: a denied call's result goes to the results channel
ExecDenyResult(i) ==
    /\ pc = "tools" /\ i \in Idx /\ epc[i] = "deny_result"
    /\ toolResults' = Append(toolResults, DeniedMessage(i))
    /\ epc' = [epc EXCEPT ![i] = "done"]
    /\ UNCHANGED <<loopVars, events, calls, econf, tool, tres, pending, ended, nout, ran, brokerVars>>

\* handleToolCalls: tool_start, the pipe, and the goroutine that calls execTool
ExecToolStart(i) ==
    /\ pc = "tools" /\ i \in Idx /\ epc[i] = "tool_start"
    /\ events' = Append(events, Ev("tool_start", calls[i].name, i, calls[i].args))
    /\ tool' = [tool EXCEPT ![i] = "spawned"]
    /\ epc' = [epc EXCEPT ![i] = "scan"]
    /\ UNCHANGED <<loopVars, calls, econf, tres, pending, ended, nout, ran, toolResults, brokerVars>>

\* execTool: an unknown name returns at once, a known tool's Run is called
ToolBegin(i) ==
    /\ pc = "tools" /\ i \in Idx /\ tool[i] = "spawned"
    /\ IF calls[i].name \in Registered
       THEN /\ tool' = [tool EXCEPT ![i] = "running"]
            /\ ran' = ran \cup {<<iterations, i, calls[i].name>>}
            /\ UNCHANGED tres
       ELSE /\ tool' = [tool EXCEPT ![i] = "returned"]
            /\ tres' = [tres EXCEPT ![i] = "unknown"]
            /\ UNCHANGED ran
    /\ UNCHANGED <<loopVars, events, calls, epc, econf, pending, ended, nout, toolResults, brokerVars>>

\* Tool.Run writes one line to its stream; the write blocks until it is read
ToolWrite(i) ==
    /\ pc = "tools" /\ i \in Idx /\ tool[i] = "running"
    /\ pending[i] = 0 /\ nout[i] < MaxOut /\ ~ended[i]
    /\ pending' = [pending EXCEPT ![i] = 1]
    /\ nout' = [nout EXCEPT ![i] = @ + 1]
    /\ UNCHANGED <<loopVars, events, calls, epc, econf, tool, tres, ended, ran, toolResults, brokerVars>>

\* Tool.Run returns a result or an error.  handleToolCalls and execTool never
\* close the pipe writer: the stream ends for the scanner only if the tool
\* itself ended it (end = TRUE: it closed the writer it was given).
ToolReturn(i, r, end) ==
    /\ pc = "tools" /\ i \in Idx /\ tool[i] = "running"
    /\ pending[i] = 0
    /\ tool' = [tool EXCEPT ![i] = "returned"]
    /\ tres' = [tres EXCEPT ![i] = r]
    /\ ended' = [ended EXCEPT ![i] = end]
    /\ UNCHANGED <<loopVars, events, calls, epc, econf, pending, nout, ran, toolResults, brokerVars>>

\* handleToolCalls: Scan() reads a line of the tool's pipe, which lets the
\* tool's Write return
ExecScanLine(i) ==
    /\ pc = "tools" /\ i \in Idx /\ epc[i] = "scan"
    /\ pending[i] = 1
    /\ pending' = [pending EXCEPT ![i] = 0]
    /\ epc' = [epc EXCEPT ![i] = "output"]
    /\ UNCHANGED <<loopVars, events, calls, econf, tool, tres, ended, nout, ran, toolResults, brokerVars>>

\* handleToolCalls: the tool_output event of the line read
ExecOutput(i) ==
    /\ pc = "tools" /\ i \in Idx /\ epc[i] = "output"
    /\ events' = Append(events, Ev("tool_output", calls[i].name, i, ""))
    /\ epc' = [epc EXCEPT ![i] = "scan"]
    /\ UNCHANGED <<loopVars, calls, econf, tool, tres, pending, ended, nout, ran, toolResults, brokerVars>>

\* handleToolCalls: Scan returns false once the stream has ended
ExecScanEnd(i) ==
    /\ pc = "tools" /\ i \in Idx /\ epc[i] = "scan"
    /\ pending[i] = 0 /\ ended[i]
    /\ epc' = [epc EXCEPT ![i] = "wait"]
    /\ UNCHANGED <<loopVars, events, calls, econf, tool, tres, pending, ended, nout, ran, toolResults, brokerVars>>

\* handleToolCalls: execWg.Wait() returns, then tool_end
ExecToolEnd(i) ==
    /\ pc = "tools" /\ i \in Idx /\ epc[i] = "wait"
    /\ tool[i] = "returned"
    /\ events' = Append(events, Ev("tool_end", calls[i].name, i, ""))
    /\ epc' = [epc EXCEPT ![i] = "result"]
    /\ UNCHANGED <<loopVars, calls, econf, tool, tres, pending, ended, nout, ran, toolResults, brokerVars>>

\* the tool-role message of an executed call
ResultText(r) ==
    IF r = "err" THEN "Tool execution failed."
    ELSE IF r = "unknown" THEN "model hallucinated an unknown tool"
    ELSE "tool result"

ResultMessage(i) == Msg("tool", ResultText(tres[i]), calls[i].name, <<>>)

\* handleToolCalls: an executed call's result goes to the results channel
ExecResult(i) ==
    /\ pc = "tools" /\ i \in Idx /\ epc[i] = "result"
    /\ toolResults' = Append(toolResults, ResultMessage(i))
    /\ epc' = [epc EXCEPT ![i] = "done"]
    /\ UNCHANGED <<loopVars, events, calls, econf, tool, tres, pending, ended, nout, ran, brokerVars>>

\* the results in the order handleToolCalls returns them
CollectResults(ch) == ch

\* handleToolCalls returns after wg.Wait(); _runIteration appends the results
IterCollect ==
    /\ pc = "tools"
    /\ \A i \in Idx : epc[i] = "done"
    /\ events' = Append(events, Ev("thinking", "", 0, ""))
    /\ messages' = messages \o CollectResults(toolResults)
    /\ session' = session \o CollectResults(toolResults)
    /\ pc' = "loop"
    /\ UNCHANGED <<prompt, maxIterations, msg, storeVars, hostVars, partVars, iterations, lastToolCallHash, notes, closed, execVars, brokerVars>>

\* ------------------------------------------------------------------ exit
\* StreamRunWithSessionAndImages after the loop: the error event
EmitIterationLimit ==
    /\ \/ pc = "after"
       \/ pc = "loop" /\ ~LoopCond
    /\ events' = Append(events, Ev("error", "", 0, LimitText))
    /\ pc' = "defer"
    /\ UNCHANGED <<prompt, maxIterations, msg, storeVars, hostVars, partVars, iterations, lastToolCallHash, messages, session, notes, closed, execVars, brokerVars>>

\* the deferred send of the terminal status event
DeferComplete ==
    /\ pc = "defer"
    /\ events' = Append(events, Ev("status", "", 0, "stream_complete"))
    /\ pc' = "closing"
    /\ UNCHANGED <<prompt, maxIterations, msg, storeVars, hostVars, partVars, iterations, lastToolCallHash, messages, session, notes, closed, execVars, brokerVars>>

\* the deferred close(events)
CloseSink ==
    /\ pc = "closing"
    /\ closed' = TRUE
    /\ pc' = "closed"
    /\ UNCHANGED <<prompt, maxIterations, msg, storeVars, hostVars, partVars, iterations, lastToolCallHash, messages, session, notes, events, execVars, brokerVars>>

\* ------------------------------------------------------------------ environment
\* ids a client has seen in awaiting_confirmation events
AnnouncedIds == { events[k].info : k \in { j \in 1..Len(events) : events[j].type = "awaiting_confirmation" } }

\* ids a caller of ResolveRequest can name: those a client was shown plus one
\* that was never registered (0); any id at all when the broker is driven alone
ResolvableIds == IF pc = "broker" THEN 0..MaxRequests ELSE AnnouncedIds \cup {0}

\* a ResolveRequest call arriving from the transport
Resolve(id, allowed) ==
    /\ id \in ResolvableIds
    /\ ResolveRequest(id, allowed)
    /\ UNCHANGED <<loopVars, events, execVars>>

\* the expiry goroutine of request id fires
Expire(id) ==
    /\ ExpireRequest(id)
    /\ UNCHANGED <<loopVars, events, execVars>>

\* one step of the executor goroutine of call i, or of its execTool goroutine
ExecStep(i) ==
    \/ ExecStart(i)
    \/ ExecAnnounce(i)
    \/ ExecReceive(i)
    \/ ExecDenied(i)
    \/ ExecDenyResult(i)
    \/ ExecToolStart(i)
    \/ ToolBegin(i)
    \/ ToolWrite(i)
    \/ \E r \in {"ok", "err"}, end \in BOOLEAN : ToolReturn(i, r, end)
    \/ ExecScanLine(i)
    \/ ExecOutput(i)
    \/ ExecScanEnd(i)
    \/ ExecToolEnd(i)
    \/ ExecResult(i)

Next ==
    \/ Prepare
    \/ StreamThinking
    \/ \E cause \in LLMFailures, rest \in BOOLEAN : StreamError(cause, rest)
    \/ \E c \in {"", "answer"} : StreamText(c)
    \/ \E tcs \in CallLists(MaxCalls) : StreamToolCalls(tcs)
    \/ IterLLMError
    \/ IterAnswerThinking
    \/ IterToken
    \/ IterText
    \/ IterValidating
    \/ \E reply \in ValidatorReplies : IterValidate(reply)
    \/ IterRejected
    \/ IterDuplicate
    \/ IterDispatch
    \/ \E i \in Idx : ExecStep(i)
    \/ IterCollect
    \/ EmitIterationLimit
    \/ DeferComplete
    \/ CloseSink
    \/ \E id \in 0..MaxRequests, a \in BOOLEAN : Resolve(id, a)
    \/ \E id \in 1..Len(chans) : Expire(id)

Spec == Init /\ [][Next]_vars

\* One iteration with several calls in the assistant message: an agent
\* configured with max_iterations = 1.
InitTools == Idle /\ maxIterations = 1

NextTools ==
    \/ Prepare
    \/ StreamThinking
    \/ \E tcs \in CallLists(MaxParallel) : StreamToolCalls(tcs)
    \/ IterValidating
    \/ \E reply \in ValidatorReplies : IterValidate(reply)
    \/ IterRejected
    \/ IterDispatch
    \/ \E i \in Idx : ExecStep(i)
    \/ IterCollect
    \/ EmitIterationLimit
    \/ DeferComplete
    \/ CloseSink
    \/ \E id \in 0..MaxRequests, a \in BOOLEAN : Resolve(id, a)
    \/ \E id \in 1..Len(chans) : Expire(id)

SpecTools == InitTools /\ [][NextTools]_vars

\* ------------------------------------------------------------------ the broker alone
\* The ConfirmationManager driven by arbitrary callers: requests are
\* registered, resolved under any id, expired and read, in any order.
InitBroker ==
    /\ prompt = S_tell
    /\ maxIterations = 0
    /\ pc = "broker"
    /\ iterations = 0
    /\ lastToolCallHash = EmptyHash
    /\ messages = <<>>
    /\ session = <<>>
    /\ notes = <<>>
    /\ events = <<>>
    /\ closed = FALSE
    /\ msg = NoReply
    /\ calls = <<>>
    /\ epc = <<>>
    /\ econf = <<>>
    /\ tool = <<>>
    /\ tres = <<>>
    /\ pending = <<>>
    /\ ended = <<>>
    /\ nout = <<>>
    /\ ran = {}
    /\ toolResults = <<>>
    /\ requests = {}
    /\ chans = <<>>
    /\ fault = "none"
    /\ StoreOff
    /\ HostIdle
    /\ PartsIdle

\* a caller registers a request
BrokerRegister ==
    /\ pc = "broker"
    /\ Len(chans) < MaxRequests
    /\ RegisterRequest
    /\ UNCHANGED <<loopVars, events, execVars>>

\* the holder of channel id receives from it
BrokerReceive(id) ==
    /\ pc = "broker"
    /\ id \in 1..Len(chans)
    /\ Len(chans[id].buf) > 0
    /\ chans' = [chans EXCEPT ![id].buf = Tail(@)]
    /\ UNCHANGED <<loopVars, events, execVars, requests, fault>>

NextBroker ==
    \/ BrokerRegister
    \/ \E id \in 0..MaxRequests, a \in BOOLEAN : Resolve(id, a)
    \/ \E id \in 1..MaxRequests : Expire(id)
    \/ \E id \in 1..MaxRequests : BrokerReceive(id)

SpecBroker == InitBroker /\ [][NextBroker]_vars

\* ------------------------------------------------------------------ the host of a request
\* the request's context is cancelled (the client went away) while the run
\* is under way
Cancel ==
    /\ pc \in {"start", "loop", "stream", "reply", "token", "record", "validating", "validated",
              "tools",
              "after", "defer", "closing"}
    /\ ~cancelled
    /\ cancelled' = TRUE
    /\ UNCHANGED <<prompt, maxIterations, msg, storeVars, partVars, producers, response, pc, iterations,
                   lastToolCallHash, messages, session, notes, closed, events, execVars, brokerVars>>

\* an error event whose payload is an ErrorEventPayload: the events the loop
\* builds itself; the frame processLLMStream forwards carries the decoded
\* JSON object instead
TypedError(e) == e.type = "error" /\ e.info # StreamErrorText("frame")

\* AgentHandler's aggregation of the event stream
FinalAnswerOf(evs) == SelectSeq(evs, LAMBDA e : e.type \in {"token", "final_answer"})
ToolOutputOf(evs) == SelectSeq(evs, LAMBDA e : e.type = "tool_output")
LastErrorOf(evs) ==
    LET errs == SelectSeq(evs, TypedError)
    IN  IF errs = <<>> THEN "" ELSE errs[Len(errs)].info

\* AgentHandler: the response it writes once the event channel is closed
AgentHandler(evs) ==
    IF LastErrorOf(evs) # ""
    THEN [status |-> 500, answer |-> <<>>]
    ELSE [status |-> 200,
          answer |-> IF FinalAnswerOf(evs) = <<>> THEN ToolOutputOf(evs) ELSE FinalAnswerOf(evs)]

\* AgentHandler leaves its range loop and answers
HandlerRespond ==
    /\ pc = "closed" /\ closed
    /\ response = NoResponse
    /\ response' = AgentHandler(events)
    /\ UNCHANGED <<prompt, maxIterations, msg, storeVars, partVars, cancelled, producers, pc, iterations,
                   lastToolCallHash, messages, session, notes, closed, events, execVars, brokerVars>>

NextHost ==
    \/ Next
    \/ Cancel
    \/ HandlerRespond

SpecHost == Init /\ [][NextHost]_vars

\* ------------------------------------------------------------------ fairness
\* Every goroutine of the agent that can take a step eventually takes it, and
\* every expiry timer fires; a client need not ever answer a confirmation.
AgentNext ==
    \/ Prepare
    \/ StreamThinking
    \/ \E cause \in LLMFailures, rest \in BOOLEAN : StreamError(cause, rest)
    \/ \E c \in {"", "answer"} : StreamText(c)
    \/ \E tcs \in CallLists(MaxCalls) : StreamToolCalls(tcs)
    \/ IterLLMError
    \/ IterAnswerThinking
    \/ IterToken
    \/ IterText
    \/ IterValidating
    \/ \E reply \in ValidatorReplies : IterValidate(reply)
    \/ IterRejected
    \/ IterDuplicate
    \/ IterDispatch
    \/ \E i \in Idx : ExecStep(i)
    \/ IterCollect
    \/ EmitIterationLimit
    \/ DeferComplete
    \/ CloseSink
    \/ \E id \in 1..Len(chans) : Expire(id)

FairSpec == Init /\ [][Next]_vars /\ WF_vars(AgentNext)

\* the same for a request whose context may be cancelled
FairHost == Init /\ [][NextHost]_vars /\ WF_vars(AgentNext)

\* Every goroutine of the agent that can take a step eventually takes it,
\* while no expiry timer is due yet and no client answers.
RunNext ==
    \/ Prepare
    \/ StreamThinking
    \/ \E cause \in LLMFailures, rest \in BOOLEAN : StreamError(cause, rest)
    \/ \E c \in {"", "answer"} : StreamText(c)
    \/ \E tcs \in CallLists(MaxCalls) : StreamToolCalls(tcs)
    \/ IterLLMError
    \/ IterAnswerThinking
    \/ IterToken
    \/ IterText
    \/ IterValidating
    \/ \E reply \in ValidatorReplies : IterValidate(reply)
    \/ IterRejected
    \/ IterDuplicate
    \/ IterDispatch
    \/ \E i \in Idx : ExecStep(i)
    \/ IterCollect
    \/ EmitIterationLimit
    \/ DeferComplete
    \/ CloseSink

FairHostNoTimer == Init /\ [][NextHost]_vars /\ WF_vars(RunNext)

\* ------------------------------------------------------------------ reading the sink
EvIdx == 1..Len(events)

\* positions of the events of one kind sent for call ix of iteration it
CallEvents(it, ix, type) ==
    { k \in EvIdx : events[k].type = type /\ events[k].it = it /\ events[k].ix = ix }

IsComplete(e) == e.type = "status" /\ e.info = "stream_complete"
IsLimitError(e) == e.type = "error" /\ e.info = LimitText
IsDenial(e) == e.type = "thinking" /\ e.info = "denied"

CompleteIdx == { k \in EvIdx : IsComplete(events[k]) }

\* some iteration's reply carried no tool call, or its stream failed
NonToolIteration ==
    \/ Len(notes) > 0
    \/ \E k \in EvIdx : events[k].type = "error" /\ events[k].info \in StreamErrorTexts

\* ------------------------------------------------------------------ claims

\* C1: every request eventually sends exactly one status stream_complete
\* event, as the last event on the sink, and then closes the sink.
C1_CompleteOnceAndLast ==
    <>(closed /\ Cardinality(CompleteIdx) = 1 /\ Len(events) \in CompleteIdx)

\* C2: a request's sink never carries both a final-answer event (token) and an
\* error event.
C2_ExclusiveOutcome ==
    ~ ( /\ \E k \in EvIdx : events[k].type = "token"
        /\ \E k \in EvIdx : events[k].type = "error" )

\* C3: when every iteration's reply carries tool calls, the loop stops after
\* exactly max_iterations iterations and the sink ends with the error
\* "Iteration limit reached" followed by status stream_complete.
C3_LimitReached ==
    <>( \/ NonToolIteration
        \/ /\ closed
           /\ iterations = maxIterations
           /\ Len(events) >= 2
           /\ IsLimitError(events[Len(events) - 1])
           /\ IsComplete(events[Len(events)]) )

\* C4: the number of iterations started never exceeds max_iterations, and no
\* event is sent from an iteration beyond it.
C4_IterationBound ==
    /\ iterations <= maxIterations
    /\ \A k \in EvIdx : events[k].it <= maxIterations

\* a request that used up its iterations, one of them ending in a validation
\* rejection and one in a duplicate-call redirect
C4_Witness ==
    /\ iterations = maxIterations
    /\ \E k \in 1..Len(messages) : messages[k].content = "force_text_response"
    /\ \E k \in 1..Len(messages) : messages[k].content = "duplicate_tool_call"

\* C5: a sensitive tool is started and run only after an awaiting_confirmation
\* event for that call was sent and ResolveRequest delivered true for its id.
C5_SensitiveGate ==
    /\ \A k \in EvIdx :
          (events[k].type = "tool_start" /\ events[k].tool \in Sensitive \cap Registered)
          => \E j \in 1..(k - 1) :
                /\ events[j].type = "awaiting_confirmation"
                /\ events[j].it = events[k].it /\ events[j].ix = events[k].ix
                /\ chans[events[j].info].sent = <<TRUE>>
    /\ \A r \in ran :
          r[3] \in Sensitive => CallEvents(r[1], r[2], "tool_start") # {}

\* a sensitive tool was started and run
C5_Witness ==
    /\ \E k \in EvIdx : events[k].type = "tool_start" /\ events[k].tool \in Sensitive
    /\ \E r \in ran : r[3] \in Sensitive

\* C6: every dispatched call whose executor has finished has exactly one
\* tool_start and one tool_end on the sink, with its tool_outputs between.
C6_Bracket ==
    \A i \in Idx :
        (pc = "tools" /\ epc[i] = "done") =>
            /\ Cardinality(CallEvents(iterations, i, "tool_start")) = 1
            /\ Cardinality(CallEvents(iterations, i, "tool_end")) = 1
            /\ \A s \in CallEvents(iterations, i, "tool_start"),
                  e \in CallEvents(iterations, i, "tool_end"),
                  o \in CallEvents(iterations, i, "tool_output") : s < o /\ o < e

\* C7: a call denied by a false answer or by the channel closing sends a
\* thinking event, yields the message "User denied the execution of this
\* tool.", sends no tool_output and never runs the tool; when handleToolCalls
\* returns the loop continues with that message in the history.
C7_DeniedInv ==
    \A k \in EvIdx :
        IsDenial(events[k]) =>
            /\ CallEvents(events[k].it, events[k].ix, "tool_output") = {}
            /\ <<events[k].it, events[k].ix, events[k].tool>> \notin ran

C7_DeniedStep ==
    /\ \A i \in Idx :
          /\ (pc' = "tools" /\ epc[i] = "await" /\ epc'[i] # "await"
                 /\ chans[econf[i]].sent # <<TRUE>>)
             => epc'[i] = "denied"
          /\ (pc' = "tools" /\ epc[i] = "denied" /\ epc'[i] # "denied")
             => /\ epc'[i] = "deny_result"
                /\ Len(events') = Len(events) + 1
                /\ IsDenial(events'[Len(events')])
          /\ (pc' = "tools" /\ epc[i] = "deny_result" /\ epc'[i] # "deny_result")
             => /\ epc'[i] = "done"
                /\ toolResults' = Append(toolResults,
                       [role |-> "tool", content |-> "User denied the execution of this tool.",
                        name |-> calls[i].name, toolCalls |-> <<>>])
    /\ (pc = "tools" /\ pc' # "tools")
       => /\ pc' = "loop"
          /\ Len(messages') = Len(messages) + Len(toolResults)
          /\ \A k \in 1..Len(toolResults) : messages'[Len(messages) + k] = toolResults[k]
          /\ \A k \in EvIdx :
                (IsDenial(events[k]) /\ events[k].it = iterations)
                => \E j \in (Len(messages) + 1)..Len(messages') :
                      /\ messages'[j].content = DeniedText
                      /\ messages'[j].name = events[k].tool

C7_DenialHandled == []C7_DeniedInv /\ [][C7_DeniedStep]_vars

\* a denial is in the history of a request that went on to a later iteration,
\* and some confirmation channel was closed by its timeout without a delivery
C7_Witness ==
    /\ iterations >= 2
    /\ \E k \in 1..Len(messages) : messages[k].content = DeniedText
    /\ \E id \in 1..Len(chans) : chans[id].closed /\ chans[id].sent = <<>>

\* C8: once the executor of a call that sent awaiting_confirmation has
\* finished, a tool_end for that call follows the awaiting_confirmation event.
C8_AwaitThenEnd ==
    \A k \in EvIdx :
        (/\ events[k].type = "awaiting_confirmation"
         /\ pc = "tools" /\ events[k].it = iterations
         /\ epc[events[k].ix] = "done")
        => \E j \in CallEvents(events[k].it, events[k].ix, "tool_end") : j > k

\* C9: on one confirmation id only the first of ResolveRequest and the expiry
\* takes effect: at most one value is ever sent, the channel is closed once
\* and never sent to afterwards, the id leaves the broker, and a later call
\* on that id or on an unregistered id changes nothing.
C9_BrokerInv ==
    /\ fault = "none"
    /\ requests \subseteq 1..Len(chans)
    /\ \A id \in 1..Len(chans) :
          /\ Len(chans[id].sent) <= 1
          /\ chans[id].closed <=> id \notin requests
          /\ id \in requests => chans[id].sent = <<>>

C9_BrokerStep ==
    /\ \A id \in 1..Len(chans) :
          id \notin requests
          => /\ id \notin requests'
             /\ chans'[id].sent = chans[id].sent
             /\ chans'[id].closed = chans[id].closed
    /\ Cardinality({ id \in 1..Len(chans) :
                       chans'[id].closed # chans[id].closed \/ chans'[id].sent # chans[id].sent }) <= 1
    /\ Cardinality(requests \ requests') <= 1

C9_FirstWins == []C9_BrokerInv /\ [][C9_BrokerStep]_vars

\* one request was resolved with a value, another expired, a third is pending
C9_Witness ==
    /\ \E id \in 1..Len(chans) : chans[id].closed /\ Len(chans[id].sent) = 1
    /\ \E id \in 1..Len(chans) : chans[id].closed /\ chans[id].sent = <<>>
    /\ requests # {}

\* the tool-role messages of a sequence of messages
ToolMessages(ms) == SelectSeq(ms, LAMBDA m : m.role = "tool")

\* C10: after a message with several tool calls was executed, the tool-role
\* messages in the working history and in the session store are one per
\* call, in the order of the calls.
C10_ResultOrder ==
    (pc \notin {"start", "tools"} /\ Len(calls) > 0) =>
        /\ Len(ToolMessages(messages)) = Len(calls)
        /\ \A k \in 1..Len(calls) : ToolMessages(messages)[k].name = calls[k].name
        /\ ToolMessages(session) = ToolMessages(messages)

\* ------------------------------------------------------------------ the session store at work

\* ---- the callers' side

\* MemoryV3.enqueueWrite up to its select: a non-blocking send, else a
\* goroutine of its own for the task
enqueueWrite(t) ==
    /\ IF Len(writeQueue) < WriteQueueCapacity
       THEN writeQueue' = Append(writeQueue, t) /\ fb' = fb
       ELSE fb' = fb \cup {[task |-> t, phase |-> "mem"]} /\ writeQueue' = writeQueue
    /\ nextTask' = t.n

\* the message of a task that carries none
NoMessage == Message(0, "short")

\* a client uses the store while it is open and the task budget lasts, and it
\* makes its calls one after the other
CanCall(k) == pc = "store" /\ cpc = "idle" /\ marking = 0 /\ nextTask + k <= MaxTasks

\* uuid.New(): an id no session has, in memory, on disk or in a pending task
FreshIds ==
    { id \in SessIds :
        /\ ~sessions[id].present
        /\ logs[id] = <<>>
        /\ \A k \in 1..Len(writeQueue) : writeQueue[k].sid # id
        /\ \A k \in 1..Len(bufferTasks) : bufferTasks[k].sid # id
        /\ \A f \in fb : f.task.sid # id }
NewSessionId == CHOOSE id \in FreshIds : TRUE

\* MemoryV3.AddConversation, up to the select of enqueueWrite
AddConversation ==
    /\ CanCall(1)
    /\ enqueueWrite(Task("conv", "", NoMessage, nextTask + 1))
    /\ marking' = marking + 1
    /\ UNCHANGED <<agentVars, dataVars, writerVars, closeVars, reqVars, dirty, flushing, ret, boots, diskErrors, diskVars>>

\* MemoryV3.AddNote, up to the select of enqueueWrite
AddNote ==
    /\ CanCall(1)
    /\ enqueueWrite(Task("note", "", NoMessage, nextTask + 1))
    /\ marking' = marking + 1
    /\ UNCHANGED <<agentVars, dataVars, writerVars, closeVars, reqVars, dirty, flushing, ret, boots, diskErrors, diskVars>>

\* MemoryV3.CreateSession, called with a new id as every caller does, up to
\* the select of enqueueWrite
CreateSession ==
    /\ CanCall(1)
    /\ FreshIds # {}
    /\ enqueueWrite(Task("create", NewSessionId, NoMessage, nextTask + 1))
    /\ marking' = marking + 1
    /\ UNCHANGED <<agentVars, dataVars, writerVars, closeVars, reqVars, dirty, flushing, ret, boots, diskErrors, diskVars>>

\* SetCurrentSession without its early return for an unknown id
SetCurrentSessionAlwaysEnqueues(id) ==
    /\ CanCall(1)
    /\ ret' = [op |-> "SetCurrentSession", sid |-> id, val |-> sessions[id].present]
    /\ enqueueWrite(Task("setcur", id, NoMessage, nextTask + 1))
    /\ marking' = marking + 1
    /\ UNCHANGED <<agentVars, dataVars, writerVars, closeVars, reqVars, dirty, flushing, boots, diskErrors, diskVars>>

\* MemoryV3.SetCurrentSession: the lookup, and for a known id the call of
\* enqueueWrite up to its select
SetCurrentSession(id) ==
    /\ CanCall(1)
    /\ ret' = [op |-> "SetCurrentSession", sid |-> id, val |-> sessions[id].present]
    /\ IF sessions[id].present
       THEN enqueueWrite(Task("setcur", id, NoMessage, nextTask + 1)) /\ marking' = marking + 1
       ELSE UNCHANGED <<queueVars, marking>>
    /\ UNCHANGED <<agentVars, dataVars, writerVars, closeVars, reqVars, dirty, flushing, boots, diskErrors, diskVars>>

\* MemoryV3.AddMessageToSession: the lookup, and for a known id the call of
\* enqueueWrite up to its select
AddMessageToSession(id, size) ==
    /\ CanCall(1)
    /\ ret' = [op |-> "AddMessageToSession", sid |-> id, val |-> sessions[id].present]
    /\ IF sessions[id].present
       THEN /\ enqueueWrite(Task("msg", id, Message(nextTask + 1, size), nextTask + 1))
            /\ marking' = marking + 1
       ELSE UNCHANGED <<queueVars, marking>>
    /\ UNCHANGED <<agentVars, dataVars, writerVars, closeVars, reqVars, dirty, flushing, boots, diskErrors, diskVars>>

\* enqueueWrite's last statement in one of these callers:
\* atomic.StoreInt32(&m.dirty, 1)
StoreDirty ==
    /\ pc = "store" /\ marking > 0
    /\ dirty' = 1
    /\ marking' = marking - 1
    /\ UNCHANGED <<agentVars, dataVars, queueVars, writerVars, closeVars, reqVars, flushing, ret, boots, diskErrors, diskVars>>

\* prepareSessionAndMessages for a request without a session id while the
\* store has no current session: a new id and CreateSession, up to the
\* select of enqueueWrite
ReqCreate ==
    /\ CanCall(MaxTasks)
    /\ rpc = "idle"
    /\ currentSessionID = ""
    /\ FreshIds # {}
    /\ rsid' = NewSessionId
    /\ enqueueWrite(Task("create", NewSessionId, NoMessage, nextTask + 1))
    /\ rpc' = "creating"
    /\ UNCHANGED <<agentVars, dataVars, writerVars, closeVars, rok, dirty, flushing, marking, ret, boots, diskErrors, diskVars>>

\* prepareSessionAndMessages for a request that names its session: the
\* result of SetCurrentSession is dropped
ReqGiven(id) ==
    /\ CanCall(MaxTasks)
    /\ rpc = "idle"
    /\ rsid' = id
    /\ ret' = [op |-> "SetCurrentSession", sid |-> id, val |-> sessions[id].present]
    /\ IF sessions[id].present
       THEN enqueueWrite(Task("setcur", id, NoMessage, nextTask + 1)) /\ rpc' = "setting"
       ELSE rpc' = "given" /\ UNCHANGED queueVars
    /\ UNCHANGED <<agentVars, dataVars, writerVars, closeVars, rok, dirty, flushing, marking, boots, diskErrors, diskVars>>

\* prepareSessionAndMessages: AddMessageToSession(sessionID, userMsg)
ReqAppend ==
    /\ pc = "store" /\ rpc \in {"created", "given"}
    /\ rok' = sessions[rsid].present
    /\ ret' = [op |-> "AddMessageToSession", sid |-> rsid, val |-> sessions[rsid].present]
    /\ IF sessions[rsid].present
       THEN /\ enqueueWrite(Task("msg", rsid, Message(nextTask + 1, "short"), nextTask + 1))
            /\ rpc' = "appending"
       ELSE rpc' = "appended" /\ UNCHANGED queueVars
    /\ UNCHANGED <<agentVars, dataVars, writerVars, closeVars, rsid, dirty, flushing, marking, boots, diskErrors, diskVars>>

\* prepareSessionAndMessages: AddConversation(prompt)
ReqConversation ==
    /\ pc = "store" /\ rpc = "appended"
    /\ enqueueWrite(Task("conv", "", NoMessage, nextTask + 1))
    /\ rpc' = "conversing"
    /\ UNCHANGED <<agentVars, dataVars, writerVars, closeVars, rsid, rok, dirty, flushing, marking, ret, boots, diskErrors, diskVars>>

\* where the request is once the call it is in has returned
Returned(at) ==
    IF at = "creating" THEN "created"
    ELSE IF at = "setting" THEN "given"
    ELSE IF at = "appending" THEN "appended"
    ELSE "done"

\* enqueueWrite's last statement in a call of the request:
\* atomic.StoreInt32(&m.dirty, 1), and the call returns
ReqStoreDirty ==
    /\ pc = "store" /\ rpc \in {"creating", "setting", "appending", "conversing"}
    /\ dirty' = 1
    /\ rpc' = Returned(rpc)
    /\ UNCHANGED <<agentVars, dataVars, queueVars, writerVars, closeVars, rsid, rok, flushing, marking, ret, boots, diskErrors, diskVars>>


\* ---- the tasks

\* the closure of a task, up to its m.mu.Unlock(): the change to the memory
TaskEffect(t) ==
    /\ applied' = Append(applied, t.n)
    /\ conversations' = IF t.op = "conv" THEN Append(conversations, t.n) ELSE conversations
    /\ memNotes' = IF t.op = "note" THEN Append(memNotes, t.n) ELSE memNotes
    /\ currentSessionID' = IF t.op \in {"create", "setcur"} THEN t.sid ELSE currentSessionID
    /\ sessions' =
         IF t.op = "create"
         THEN [sessions EXCEPT ![t.sid] =
                  [present |-> TRUE, count |-> 0, msgs |-> <<>>, touched |-> t.n]]
         ELSE IF t.op = "setcur" /\ sessions[t.sid].present
         THEN [sessions EXCEPT ![t.sid].touched = t.n]
         ELSE IF t.op = "msg"
         THEN [sessions EXCEPT ![t.sid] =
                  [present |-> @.present, count |-> @.count + 1,
                   msgs |-> Append(@.msgs, t.msg), touched |-> t.n]]
         ELSE sessions

\* every closure but the append-message one stores the dirty flag itself
SetsDirty(t) == t.op # "msg"

\* appendSessionLine: one line at the end of the session log, or an error
\* from OpenFile or Write that leaves the log as it was
appendSessionLine(id, m, written) ==
    logs' = IF written THEN [logs EXCEPT ![id] = Append(@, MarshalLine(m))] ELSE logs

\* ---- the writer goroutine

\* the call of runTasks(bufferTasks): the compare-and-swap of flushing, which
\* only this goroutine ever sets
RunTasksFrom(back) ==
    /\ flushing = 0
    /\ flushing' = 1
    /\ wpc' = "run" /\ ri' = 1 /\ wret' = back

\* where the writer goes when runTasks returns to the place it was called from
Back ==
    /\ flushing' = 0
    /\ IF wret = "final"
       THEN wpc' = "snap" /\ pret' = "exit" /\ bufferTasks' = bufferTasks
       ELSE /\ wpc' = (IF wret = "tick" THEN "tickp" ELSE wret)
            /\ pret' = pret
            /\ bufferTasks' = <<>>

\* writerLoop: case <-m.closed
WSelectClosed ==
    /\ pc = "store" /\ wpc = "select" /\ memClosed
    /\ wpc' = "drain"
    /\ UNCHANGED <<agentVars, dataVars, queueVars, bufferTasks, wret, pret, ri, tn, ticks, wsnap,
                   closeVars, reqVars, dirty, flushing, ret, boots, diskErrors, marking, diskVars>>

\* writerLoop: case <-ticker.C
WSelectTick ==
    /\ pc = "store" /\ wpc = "select"
    /\ ticks < MaxTicks
    /\ ticks' = ticks + 1
    /\ wpc' = "tick" /\ tn' = 0
    /\ UNCHANGED <<agentVars, dataVars, queueVars, bufferTasks, wret, pret, ri, wsnap,
                   closeVars, reqVars, dirty, flushing, ret, boots, diskErrors, marking, diskVars>>

\* writerLoop: case t := <-m.writeQueue
WSelectTask ==
    /\ pc = "store" /\ wpc = "select" /\ writeQueue # <<>>
    /\ bufferTasks' = Append(bufferTasks, Head(writeQueue))
    /\ writeQueue' = Tail(writeQueue)
    /\ IF Len(bufferTasks) + 1 >= BatchSize
       THEN RunTasksFrom("select")
       ELSE UNCHANGED <<wpc, ri, wret, flushing>>
    /\ UNCHANGED <<agentVars, dataVars, fb, nextTask, pret, tn, ticks, wsnap,
                   closeVars, reqVars, dirty, ret, boots, diskErrors, marking, diskVars>>

\* writerLoop after close: the inner select takes a task
WDrainTask ==
    /\ pc = "store" /\ wpc = "drain" /\ writeQueue # <<>>
    /\ bufferTasks' = Append(bufferTasks, Head(writeQueue))
    /\ writeQueue' = Tail(writeQueue)
    /\ IF Len(bufferTasks) + 1 >= BatchSize
       THEN RunTasksFrom("drain")
       ELSE UNCHANGED <<wpc, ri, wret, flushing>>
    /\ UNCHANGED <<agentVars, dataVars, fb, nextTask, pret, tn, ticks, wsnap,
                   closeVars, reqVars, dirty, ret, boots, diskErrors, marking, diskVars>>

\* writerLoop after close: the queue is empty, run what is buffered, persist
WDrainEnd ==
    /\ pc = "store" /\ wpc = "drain" /\ writeQueue = <<>>
    /\ IF Len(bufferTasks) > 0
       THEN RunTasksFrom("final") /\ UNCHANGED pret
       ELSE wpc' = "snap" /\ pret' = "exit" /\ UNCHANGED <<ri, wret, flushing>>
    /\ UNCHANGED <<agentVars, dataVars, queueVars, bufferTasks, tn, ticks, wsnap,
                   closeVars, reqVars, dirty, ret, boots, diskErrors, marking, diskVars>>

\* the tick branch: one more task, at most batchSize of them
WTickTake ==
    /\ pc = "store" /\ wpc = "tick"
    /\ tn < BatchSize /\ writeQueue # <<>>
    /\ bufferTasks' = Append(bufferTasks, Head(writeQueue))
    /\ writeQueue' = Tail(writeQueue)
    /\ tn' = tn + 1
    /\ UNCHANGED <<agentVars, dataVars, fb, nextTask, wpc, wret, pret, ri, ticks, wsnap,
                   closeVars, reqVars, dirty, flushing, ret, boots, diskErrors, marking, diskVars>>

\* the tick branch: run what is buffered
WTickRun ==
    /\ pc = "store" /\ wpc = "tick"
    /\ tn >= BatchSize \/ writeQueue = <<>>
    /\ IF Len(bufferTasks) > 0
       THEN RunTasksFrom("tick")
       ELSE wpc' = "tickp" /\ UNCHANGED <<ri, wret, flushing>>
    /\ UNCHANGED <<agentVars, dataVars, queueVars, bufferTasks, pret, tn, ticks, wsnap,
                   closeVars, reqVars, dirty, ret, boots, diskErrors, marking, diskVars>>

\* the tick branch: persistStore if the store is dirty
WTickPersist ==
    /\ pc = "store" /\ wpc = "tickp"
    /\ IF dirty = 1
       THEN wpc' = "snap" /\ pret' = "select"
       ELSE wpc' = "select" /\ UNCHANGED pret
    /\ UNCHANGED <<agentVars, dataVars, queueVars, bufferTasks, wret, ri, tn, ticks, wsnap,
                   closeVars, reqVars, dirty, flushing, ret, boots, diskErrors, marking, diskVars>>

\* runTasks: the next task's closure runs up to its unlock
WRunTask ==
    /\ pc = "store" /\ wpc = "run" /\ ri <= Len(bufferTasks)
    /\ TaskEffect(bufferTasks[ri])
    /\ dirty' = IF SetsDirty(bufferTasks[ri]) THEN 1 ELSE dirty
    /\ IF bufferTasks[ri].op = "msg"
       THEN wpc' = "append" /\ UNCHANGED ri
       ELSE ri' = ri + 1 /\ UNCHANGED wpc
    /\ UNCHANGED <<agentVars, queueVars, bufferTasks, wret, pret, tn, ticks, wsnap,
                   closeVars, reqVars, flushing, ret, boots, diskErrors, marking, diskVars>>

\* runTasks: the append-message closure writes its line
WAppend ==
    /\ pc = "store" /\ wpc = "append"
    /\ \E written \in BOOLEAN :
          appendSessionLine(bufferTasks[ri].sid, bufferTasks[ri].msg, written)
    /\ ri' = ri + 1
    /\ wpc' = "run"
    /\ UNCHANGED <<agentVars, dataVars, queueVars, bufferTasks, wret, pret, tn, ticks, wsnap,
                   closeVars, reqVars, dirty, flushing, ret, boots, diskErrors, marking, fileVars>>

\* runTasks: all tasks ran; persistStore if the store is dirty
WRunDone ==
    /\ pc = "store" /\ wpc = "run" /\ ri > Len(bufferTasks)
    /\ IF dirty = 1
       THEN wpc' = "snap" /\ pret' = "run" /\ UNCHANGED <<bufferTasks, flushing>>
       ELSE Back
    /\ UNCHANGED <<agentVars, dataVars, queueVars, wret, ri, tn, ticks, wsnap,
                   closeVars, reqVars, dirty, ret, boots, diskErrors, marking, diskVars>>

\* runTasks: after persistStore the dirty flag is cleared and runTasks returns
WRunEnd ==
    /\ pc = "store" /\ wpc = "runend"
    /\ dirty' = 0
    /\ Back
    /\ UNCHANGED <<agentVars, dataVars, queueVars, wret, ri, tn, ticks, wsnap,
                   closeVars, reqVars, ret, boots, diskErrors, marking, diskVars>>


\* ---- persistStore

\* what persistStore copies out of the memory under the read lock
Snapshot == SnapshotOf(conversations, memNotes, sessions, currentSessionID)

\* persistStore in the writer: the copy of the memory
WSnap ==
    /\ pc = "store" /\ wpc = "snap"
    /\ wsnap' = Snapshot
    /\ wpc' = "write"
    /\ UNCHANGED <<agentVars, dataVars, queueVars, bufferTasks, wret, pret, ri, tn, ticks,
                   closeVars, reqVars, dirty, flushing, ret, boots, diskErrors, marking, diskVars>>

\* persistStore in the writer: os.WriteFile creates or truncates memory.json.tmp
WWriteOpen ==
    /\ pc = "store" /\ wpc = "write"
    /\ tmpFile' = PartialFile
    /\ tmpWriters' = tmpWriters \cup {"writer"}
    /\ wpc' = "writing"
    /\ UNCHANGED <<agentVars, dataVars, queueVars, bufferTasks, wret, pret, ri, tn, ticks, wsnap,
                   closeVars, reqVars, dirty, flushing, ret, boots, diskErrors, marking, memFile, logs>>


\* persistStore in the writer: os.WriteFile has written the whole snapshot
WWriteDone ==
    /\ pc = "store" /\ wpc = "writing"
    /\ tmpFile' = FullFile(wsnap)
    /\ tmpWriters' = tmpWriters \ {"writer"}
    /\ wpc' = "rename"
    /\ UNCHANGED <<agentVars, dataVars, queueVars, bufferTasks, wret, pret, ri, tn, ticks, wsnap,
                   closeVars, reqVars, dirty, flushing, ret, boots, diskErrors, marking, memFile, logs>>

\* a rename that copies the file in place, so that a reader can see it half done
RenameCopying(src) == PartialFile

\* os.Rename: memory.json becomes the temporary file in one step
Rename(src) == src

\* where the writer goes when persistStore returns; its callers drop the
\* error it returns
PersistReturn == IF pret = "run" THEN "runend" ELSE IF pret = "exit" THEN "exited" ELSE "select"

\* persistStore in the writer: os.WriteFile returns an error, with the
\* temporary file cut short; persistStore returns it
WWriteFail ==
    /\ diskErrors < MaxDiskErrors
    /\ diskErrors' = diskErrors + 1
    /\ pc = "store" /\ wpc = "writing"
    /\ tmpWriters' = tmpWriters \ {"writer"}
    /\ wpc' = PersistReturn
    /\ UNCHANGED <<agentVars, dataVars, queueVars, bufferTasks, wret, pret, ri, tn, ticks, wsnap,
                   closeVars, reqVars, dirty, flushing, ret, boots, marking, memFile, tmpFile, logs>>

\* persistStore in the writer: os.Rename returns an error and both files
\* stay as they are; persistStore returns it
WRenameFail ==
    /\ diskErrors < MaxDiskErrors
    /\ diskErrors' = diskErrors + 1
    /\ pc = "store" /\ wpc = "rename"
    /\ wpc' = PersistReturn
    /\ UNCHANGED <<agentVars, dataVars, queueVars, bufferTasks, wret, pret, ri, tn, ticks, wsnap,
                   closeVars, reqVars, dirty, flushing, ret, boots, marking, diskVars>>

\* persistStore in the writer: the rename, and the return to the caller
WRename ==
    /\ pc = "store" /\ wpc = "rename"
    /\ memFile' = Rename(tmpFile)
    /\ tmpFile' = AbsentFile
    /\ wpc' = PersistReturn
    /\ UNCHANGED <<agentVars, dataVars, queueVars, bufferTasks, wret, pret, ri, tn, ticks, wsnap,
                   closeVars, reqVars, dirty, flushing, ret, boots, diskErrors, marking, tmpWriters, logs>>

\* ---- the fallback goroutines

\* go func() { _ = task() }(): the closure runs up to its unlock
FbRun(f) ==
    /\ pc = "store" /\ f \in fb /\ f.phase = "mem"
    /\ TaskEffect(f.task)
    /\ dirty' = IF SetsDirty(f.task) THEN 1 ELSE dirty
    /\ fb' = IF f.task.op = "msg"
             THEN (fb \ {f}) \cup {[task |-> f.task, phase |-> "disk"]}
             ELSE fb \ {f}
    /\ UNCHANGED <<agentVars, writeQueue, nextTask, writerVars, closeVars, reqVars,
                   flushing, ret, boots, diskErrors, marking, diskVars>>

\* the append-message closure of a fallback goroutine writes its line
FbAppend(f) ==
    /\ pc = "store" /\ f \in fb /\ f.phase = "disk"
    /\ \E written \in BOOLEAN : appendSessionLine(f.task.sid, f.task.msg, written)
    /\ fb' = fb \ {f}
    /\ UNCHANGED <<agentVars, dataVars, writeQueue, nextTask, writerVars, closeVars, reqVars,
                   dirty, flushing, ret, boots, diskErrors, marking, fileVars>>

\* ---- Close

\* MemoryV3.Close: close(m.closed), called when no request and no client is
\* inside a call of the store
CloseCall ==
    /\ pc = "store" /\ cpc = "idle" /\ rpc \in {"idle", "done"} /\ marking = 0
    /\ memClosed' = TRUE
    /\ cpc' = "wait"
    /\ UNCHANGED <<agentVars, dataVars, queueVars, writerVars, csnap, reqVars,
                   dirty, flushing, ret, boots, diskErrors, marking, diskVars>>

\* Close without m.wg.Wait(): it goes on to its snapshot at once
CloseWaitedNoWait ==
    /\ pc = "store" /\ cpc = "wait"
    /\ cpc' = "snap"
    /\ UNCHANGED <<agentVars, dataVars, queueVars, writerVars, memClosed, csnap, reqVars,
                   dirty, flushing, ret, boots, diskErrors, marking, diskVars>>

\* MemoryV3.Close: m.wg.Wait() returns once the writer has exited
CloseWaited ==
    /\ pc = "store" /\ cpc = "wait" /\ wpc = "exited"
    /\ cpc' = "snap"
    /\ UNCHANGED <<agentVars, dataVars, queueVars, writerVars, memClosed, csnap, reqVars,
                   dirty, flushing, ret, boots, diskErrors, marking, diskVars>>

\* persistStore in Close: the copy of the memory
CSnap ==
    /\ pc = "store" /\ cpc = "snap"
    /\ csnap' = Snapshot
    /\ cpc' = "write"
    /\ UNCHANGED <<agentVars, dataVars, queueVars, writerVars, memClosed, reqVars,
                   dirty, flushing, ret, boots, diskErrors, marking, diskVars>>

\* persistStore in Close: os.WriteFile creates or truncates memory.json.tmp
CWriteOpen ==
    /\ pc = "store" /\ cpc = "write"
    /\ tmpFile' = PartialFile
    /\ tmpWriters' = tmpWriters \cup {"close"}
    /\ cpc' = "writing"
    /\ UNCHANGED <<agentVars, dataVars, queueVars, writerVars, memClosed, csnap, reqVars,
                   dirty, flushing, ret, boots, diskErrors, marking, memFile, logs>>

\* persistStore in Close: os.WriteFile has written the whole snapshot
CWriteDone ==
    /\ pc = "store" /\ cpc = "writing"
    /\ tmpFile' = FullFile(csnap)
    /\ tmpWriters' = tmpWriters \ {"close"}
    /\ cpc' = "rename"
    /\ UNCHANGED <<agentVars, dataVars, queueVars, writerVars, memClosed, csnap, reqVars,
                   dirty, flushing, ret, boots, diskErrors, marking, memFile, logs>>

\* persistStore in Close: os.WriteFile returns an error, with the
\* temporary file cut short; Close returns the error
CWriteFail ==
    /\ diskErrors < MaxDiskErrors
    /\ diskErrors' = diskErrors + 1
    /\ pc = "store" /\ cpc = "writing"
    /\ tmpWriters' = tmpWriters \ {"close"}
    /\ cpc' = "failed"
    /\ UNCHANGED <<agentVars, dataVars, queueVars, writerVars, memClosed, csnap, reqVars,
                   dirty, flushing, ret, boots, marking, memFile, tmpFile, logs>>

\* persistStore in Close: os.Rename returns an error and both files stay as
\* they are; Close returns the error
CRenameFail ==
    /\ diskErrors < MaxDiskErrors
    /\ diskErrors' = diskErrors + 1
    /\ pc = "store" /\ cpc = "rename"
    /\ cpc' = "failed"
    /\ UNCHANGED <<agentVars, dataVars, queueVars, writerVars, memClosed, csnap, reqVars,
                   dirty, flushing, ret, boots, marking, diskVars>>

\* persistStore in Close: the rename; Close returns
CRename ==
    /\ pc = "store" /\ cpc = "rename"
    /\ memFile' = Rename(tmpFile)
    /\ tmpFile' = AbsentFile
    /\ cpc' = "done"
    /\ UNCHANGED <<agentVars, dataVars, queueVars, writerVars, memClosed, csnap, reqVars,
                   dirty, flushing, ret, boots, diskErrors, marking, tmpWriters, logs>>

\* ---- a new start

\* the process ends at any point, by exit, kill or crash, and is started
\* again over the files it left: NewMemoryV3 and loadFromDisk
Restart ==
    /\ pc = "store" /\ boots < MaxBoots
    /\ boots' = boots + 1
    /\ diskErrors' = diskErrors
    /\ sessions' = LoadSessions(memFile, logs)
    /\ currentSessionID' = (IF memFile.state = "full" THEN memFile.data.cur ELSE "")
    /\ conversations' = (IF memFile.state = "full" THEN memFile.data.conv ELSE <<>>)
    /\ memNotes' = (IF memFile.state = "full" THEN memFile.data.notes ELSE <<>>)
    /\ dirty' = 0 /\ flushing' = 0 /\ marking' = 0
    /\ writeQueue' = <<>> /\ memClosed' = FALSE /\ bufferTasks' = <<>>
    /\ wpc' = "select" /\ wret' = "select" /\ pret' = "select" /\ ri' = 0 /\ tn' = 0
    /\ wsnap' = EmptySnapshot
    /\ fb' = {}
    /\ cpc' = "idle" /\ csnap' = EmptySnapshot
    /\ rpc' = "idle" /\ rsid' = "" /\ rok' = FALSE
    /\ ret' = NoCall
    /\ applied' = <<>>
    /\ tmpWriters' = {}
    /\ UNCHANGED <<agentVars, nextTask, ticks, memFile, tmpFile, logs>>

\* ---- the store's specification
InitStore ==
    /\ prompt = S_tell
    /\ maxIterations = 0
    /\ pc = "store"
    /\ iterations = 0
    /\ lastToolCallHash = EmptyHash
    /\ messages = <<>>
    /\ session = <<>>
    /\ notes = <<>>
    /\ events = <<>>
    /\ closed = FALSE
    /\ msg = NoReply
    /\ calls = <<>>
    /\ epc = <<>>
    /\ econf = <<>>
    /\ tool = <<>>
    /\ tres = <<>>
    /\ pending = <<>>
    /\ ended = <<>>
    /\ nout = <<>>
    /\ ran = {}
    /\ toolResults = <<>>
    /\ requests = {}
    /\ chans = <<>>
    /\ fault = "none"
    /\ HostIdle
    /\ PartsIdle
    /\ \E d \in InitialDisks :
          /\ memFile = d.mem
          /\ logs = d.logs
          /\ Started(d.mem, d.logs)
    /\ tmpFile = AbsentFile
    /\ tmpWriters = {}
    /\ boots = 1
    /\ diskErrors = 0

\* one step of the writer goroutine
WriterStep ==
    \/ WSelectClosed
    \/ WSelectTick
    \/ WSelectTask
    \/ WDrainTask
    \/ WDrainEnd
    \/ WTickTake
    \/ WTickRun
    \/ WTickPersist
    \/ WRunTask
    \/ WAppend
    \/ WRunDone
    \/ WRunEnd
    \/ WSnap
    \/ WWriteOpen
    \/ WWriteDone
    \/ WWriteFail
    \/ WRename
    \/ WRenameFail

\* one step of Close in its caller
CloseStep ==
    \/ CloseCall
    \/ CloseWaited
    \/ CSnap
    \/ CWriteOpen
    \/ CWriteDone
    \/ CWriteFail
    \/ CRename
    \/ CRenameFail

\* one step of a caller of the store
CallerStep ==
    \/ AddConversation
    \/ AddNote
    \/ CreateSession
    \/ \E id \in SessIds : SetCurrentSession(id)
    \/ \E id \in SessIds, size \in Sizes : AddMessageToSession(id, size)
    \/ ReqCreate
    \/ ReqAppend
    \/ ReqConversation

\* a caller stores the dirty flag and returns from enqueueWrite
MarkStep ==
    \/ StoreDirty
    \/ ReqStoreDirty

\* one step of a fallback goroutine
FallbackStep ==
    \/ \E f \in fb : FbRun(f)
    \/ \E f \in fb : FbAppend(f)

\* the store of one process, from its start on
NextStoreRun ==
    \/ CallerStep
    \/ MarkStep
    \/ WriterStep
    \/ FallbackStep
    \/ CloseStep

SpecStoreRun == InitStore /\ [][NextStoreRun]_vars

\* the store over the starts of the process, used by a client that calls
\* its operations one by one
NextStore ==
    \/ AddConversation
    \/ AddNote
    \/ CreateSession
    \/ \E id \in SessIds : SetCurrentSession(id)
    \/ \E id \in SessIds, size \in Sizes : AddMessageToSession(id, size)
    \/ StoreDirty
    \/ WriterStep
    \/ FallbackStep
    \/ CloseStep
    \/ Restart

SpecStore == InitStore /\ [][NextStore]_vars

\* ---- requests that name their session
\* the request and the messages its run hands over afterwards
NextStoreGiven ==
    \/ \E id \in SessIds : ReqGiven(id)
    \/ ReqAppend
    \/ ReqConversation
    \/ \E id \in SessIds : AddMessageToSession(id, "short")
    \/ MarkStep
    \/ WriterStep
    \/ FallbackStep
    \/ CloseStep

SpecStoreGiven == InitStore /\ [][NextStoreGiven]_vars

\* ---- callers that come after Close
\* Close has been called: close(m.closed) is done
CanCallLate == pc = "store" /\ memClosed /\ marking = 0 /\ nextTask + 1 <= MaxTasks

\* MemoryV3.AddNote on a store that is closing or closed
LateAddNote ==
    /\ CanCallLate
    /\ enqueueWrite(Task("note", "", NoMessage, nextTask + 1))
    /\ marking' = marking + 1
    /\ UNCHANGED <<agentVars, dataVars, writerVars, closeVars, reqVars, dirty, flushing, ret, boots, diskErrors, diskVars>>

\* MemoryV3.AddMessageToSession on a store that is closing or closed
LateAddMessageToSession(id, size) ==
    /\ CanCallLate
    /\ ret' = [op |-> "AddMessageToSession", sid |-> id, val |-> sessions[id].present]
    /\ IF sessions[id].present
       THEN /\ enqueueWrite(Task("msg", id, Message(nextTask + 1, size), nextTask + 1))
            /\ marking' = marking + 1
       ELSE UNCHANGED <<queueVars, marking>>
    /\ UNCHANGED <<agentVars, dataVars, writerVars, closeVars, reqVars, dirty, flushing, boots, diskErrors, diskVars>>

LateStep ==
    \/ LateAddNote
    \/ \E id \in SessIds, size \in Sizes : LateAddMessageToSession(id, size)

NextStoreLate ==
    \/ CallerStep
    \/ MarkStep
    \/ WriterStep
    \/ FallbackStep
    \/ CloseStep
    \/ LateStep

SpecStoreLate == InitStore /\ [][NextStoreLate]_vars

\* ---- a load that never fills the queue
\* callers come only while the write queue has room, so that every task
\* goes through the queue and the writer
QueueHasRoom == Len(writeQueue) < WriteQueueCapacity

RoomyCallerStep == QueueHasRoom /\ CallerStep

NextStoreRoomy ==
    \/ RoomyCallerStep
    \/ MarkStep
    \/ WriterStep
    \/ CloseStep

SpecStoreRoomy == InitStore /\ [][NextStoreRoomy]_vars


\* ------------------------------------------------------------------ claims C11..C20

\* positions of the tool_start events of iteration it
StartsOf(it) == { k \in EvIdx : events[k].type = "tool_start" /\ events[k].it = it }

\* C11: no two consecutive iterations both start the tools of messages whose
\* first call is the same; an iteration is dispatched only when its first
\* call's hash differs from the retained one, and an iteration redirected as
\* a duplicate sends no tool_start, appends one synthetic user message to the
\* working history, keeps the retained hash and continues the loop.
C11_DuplicateInv ==
    \A j \in EvIdx, k \in EvIdx :
        ( /\ events[j].type = "tool_start" /\ events[j].ix = 1
          /\ events[k].type = "tool_start" /\ events[k].ix = 1
          /\ events[k].it = events[j].it + 1 )
        => <<events[j].tool, events[j].info>> # <<events[k].tool, events[k].info>>

C11_DuplicateStep ==
    /\ (pc = "validated" /\ pc' = "tools")
       => /\ hashToolCalls(calls') # lastToolCallHash
          /\ lastToolCallHash' = hashToolCalls(calls')
    /\ ( /\ pc = "validated"
         /\ messages' # messages
         /\ messages'[Len(messages')].content = "duplicate_tool_call" )
       => /\ messages' = Append(messages, [role |-> "user", content |-> "duplicate_tool_call",
                                           name |-> "", toolCalls |-> <<>>])
          /\ \A k \in 1..Len(events') : events'[k].it = iterations' => events'[k].type # "tool_start"
          /\ lastToolCallHash' = lastToolCallHash
          /\ pc' = "loop"
          /\ calls' = calls /\ ran' = ran

C11_DuplicateGuard == []C11_DuplicateInv /\ [][C11_DuplicateStep]_vars

\* a tool was started in one iteration, the next iteration was redirected as
\* a duplicate and started none
C11_Witness ==
    /\ iterations >= 2
    /\ messages # <<>>
    /\ messages[Len(messages)].content = "duplicate_tool_call"
    /\ StartsOf(iterations - 1) # {}
    /\ StartsOf(iterations) = {}

\* the three ways the heuristic stage rejects a first call
FailsHeuristic(p, tc) ==
    \/ ToLower(TrimSpace(p)) \in Greetings
    \/ tc.name \notin KeywordTools
    \/ \A kw \in Keywords(tc.name) : ~Contains(ToLower(p), kw)

\* C12: a first call that fails the heuristic stage is rejected without the
\* model-assisted validator being called (validateToolCall returns before it
\* reaches its LLM call), whatever that validator would have answered; the
\* tools of a message are started
\* only if its first call passes the heuristic stage; a rejected iteration
\* starts no tool, appends the assistant message with the tool calls and a
\* synthetic user message, and continues; a greeting prompt never leads to
\* a tool_start.
C12_HeuristicInv ==
    /\ (pc = "start")
       => \A tc \in ToolCall, reply \in ValidatorReplies :
             FailsHeuristic(prompt, tc) => ~validateToolCall(prompt, tc, reply)
    /\ (validation.done /\ FailsHeuristic(prompt, validation.tc))
       => (~validation.consulted /\ ~validation.accepted)
    /\ (pc = "tools") => ~FailsHeuristic(prompt, calls[1])
    /\ \A k \in EvIdx :
          (events[k].type = "tool_start" /\ events[k].ix = 1)
          => ~FailsHeuristic(prompt, [name |-> events[k].tool, args |-> events[k].info])
    /\ (ToLower(TrimSpace(prompt)) \in Greetings)
       => /\ \A k \in EvIdx : events[k].type # "tool_start"
          /\ ran = {}

C12_HeuristicStep ==
    /\ (pc = "validated" /\ pc' = "tools") => ~FailsHeuristic(prompt, calls'[1])
    /\ ( /\ pc = "validated"
         /\ messages' # messages
         /\ messages'[Len(messages')].content = "force_text_response" )
       => /\ Len(messages') = Len(messages) + 2
          /\ SubSeq(messages', 1, Len(messages)) = messages
          /\ messages'[Len(messages) + 1].role = "assistant"
          /\ messages'[Len(messages) + 1].toolCalls # <<>>
          /\ messages'[Len(messages) + 2].role = "user"
          /\ \A k \in 1..Len(events') : events'[k].it = iterations' => events'[k].type # "tool_start"
          /\ pc' = "loop"
          /\ calls' = calls /\ ran' = ran /\ session' = session
    /\ (pc = "validating" /\ pc' # "validating")
       => /\ pc' = "validated"
          /\ validation'.done
          /\ validation'.tc = msg.toolCalls[1]
          /\ FailsHeuristic(prompt, msg.toolCalls[1]) => ~validation'.consulted
    /\ (pc = "validated" /\ pc' # "validated" /\ FailsHeuristic(prompt, msg.toolCalls[1]))
       => /\ ~validation.consulted
          /\ messages'[Len(messages')].content = "force_text_response"

C12_HeuristicRejects == []C12_HeuristicInv /\ [][C12_HeuristicStep]_vars

\* a greeting request whose model asked for a tool in every iteration: the
\* last iteration's validateToolCall has returned without its LLM call, which
\* would have come back with a reply
C12_Witness ==
    /\ ToLower(TrimSpace(prompt)) \in Greetings
    /\ iterations = maxIterations /\ iterations >= 2
    /\ Len(messages) = 2 * iterations
    /\ messages[Len(messages)].content = "force_text_response"
    /\ pc = "validated"
    /\ validation.done /\ ~validation.consulted /\ ~validation.accepted
    /\ validation.reply.render /\ ~validation.reply.err

\* ---- reading the store

\* tasks the writer holds and has not run yet
BufferedUnrun ==
    IF wpc \in {"select", "drain", "tick", "tickp"} THEN { bufferTasks[k] : k \in 1..Len(bufferTasks) }
    ELSE IF wpc \in {"run", "append"} THEN { bufferTasks[k] : k \in ri..Len(bufferTasks) }
    ELSE {}

\* no task is queued, buffered or running
Quiescent ==
    /\ writeQueue = <<>>
    /\ fb = {}
    /\ BufferedUnrun = {}

\* MemoryV3.GetSessionMessages
GetSessionMessages(id) == sessions[id].msgs

\* the messages persisted in a session log: its lines that are messages
Persisted(id) == Parsed(logs[id])

\* C13: the tasks change the memory in the order in which they were
\* enqueued, and the lines of every session log are in that order too.
C13_EnqueueOrder ==
    /\ \A i \in 1..Len(applied), j \in 1..Len(applied) : i < j => applied[i] < applied[j]
    /\ \A id \in SessIds : \A i \in 1..Len(logs[id]), j \in 1..Len(logs[id]) :
          (i < j /\ Parses(logs[id][i]) /\ Parses(logs[id][j])) => logs[id][i].id < logs[id][j].id

\* C14: when Close has returned, every task handed to the store has run,
\* each once, the writer has exited and memory.json holds the snapshot of
\* the memory all of them have changed.
C14_CloseDrains ==
    (cpc = "done") =>
        /\ wpc = "exited"
        /\ writeQueue = <<>> /\ fb = {} /\ BufferedUnrun = {}
        /\ \A i \in 1..Len(applied), j \in 1..Len(applied) : i # j => applied[i] # applied[j]
        /\ memFile = FullFile(Snapshot)

\* C15: the user message a request appends right after it created its
\* session is accepted, and once the store is quiescent it is among the
\* session's messages in memory and in the session log.
C15_FirstMessageKept ==
    (rpc \in {"appending", "appended", "conversing", "done"}) =>
        /\ rok
        /\ Quiescent =>
              /\ sessions[rsid].present
              /\ Len(GetSessionMessages(rsid)) > 0
              /\ Len(Persisted(rsid)) > 0

\* C16: whenever the store is quiescent, every session's message_count is
\* the number of messages persisted in its log.
C16_CountMatchesLog ==
    Quiescent =>
        \A id \in SessIds : sessions[id].present => sessions[id].count = Len(Persisted(id))

\* C17: whenever the store is quiescent, the messages GetSessionMessages
\* returns for a session are the last ones of its log, in the same order,
\* and all of them unless the log holds more than the load limit.
C17_LogMatchesMemory ==
    Quiescent =>
        \A id \in SessIds :
            sessions[id].present =>
                /\ Len(GetSessionMessages(id)) <= Len(Persisted(id))
                /\ GetSessionMessages(id) = LastN(Persisted(id), Len(GetSessionMessages(id)))
                /\ \/ Len(GetSessionMessages(id)) = Len(Persisted(id))
                   \/ Len(GetSessionMessages(id)) >= SessionLoadLimit

\* C18: right after a start, every session that has a log holds the last
\* min(N, k) of the k messages persisted in it, in their order, and its
\* message_count is k; lines that do not parse are left out.
C18_LoadedTail ==
    (applied = <<>>) =>
        \A id \in SessIds :
            (logs[id] # <<>> /\ Len(Persisted(id)) > 0) =>
                /\ sessions[id].present
                /\ sessions[id].msgs = LastN(Persisted(id), SessionLoadLimit)
                /\ sessions[id].count = Len(Persisted(id))

\* C19: memory.json is absent or holds one complete snapshot, it changes
\* only by a rename to a completely written snapshot, and at most one
\* goroutine at a time writes the temporary file.
C19_SnapshotInv ==
    /\ memFile.state \in {"absent", "full"}
    /\ Cardinality(tmpWriters) <= 1

C19_SnapshotStep ==
    (memFile' # memFile) =>
        /\ memFile'.state = "full"
        /\ tmpFile.state = "full"
        /\ memFile' = tmpFile
        /\ tmpWriters = {}

C19_SnapshotAtomic == []C19_SnapshotInv /\ [][C19_SnapshotStep]_vars

\* a process was stopped while the temporary file was half written, over a
\* complete memory.json, and was started again
C19_Witness ==
    /\ boots = 2
    /\ memFile.state = "full"
    /\ tmpFile.state = "partial"

\* C20: SetCurrentSession returns false exactly for an id that is not in the
\* store, and such a call enqueues no task and changes neither the current
\* session, nor any session, nor the dirty flag.
C20_UnknownSessionStep ==
    (ret' # ret /\ ret'.op = "SetCurrentSession") =>
        /\ ret'.val = sessions[ret'.sid].present
        /\ ~ret'.val =>
              /\ writeQueue' = writeQueue /\ fb' = fb /\ nextTask' = nextTask
              /\ currentSessionID' = currentSessionID
              /\ sessions' = sessions
              /\ dirty' = dirty /\ marking' = marking
              /\ conversations' = conversations /\ memNotes' = memNotes

C20_UnknownSession == [][C20_UnknownSessionStep]_vars

\* SetCurrentSession returned false in a store that has a current session
\* and a clean dirty flag
C20_Witness ==
    /\ ret.op = "SetCurrentSession" /\ ~ret.val
    /\ currentSessionID # ""
    /\ dirty = 0
    /\ nextTask = 0

\* ------------------------------------------------------------------ claims C21..C30

\* positions of the error events processLLMStream sent
StreamErrorIdx == { k \in EvIdx : events[k].type = "error" /\ events[k].info \in StreamErrorTexts }

\* C21: once processLLMStream has sent its error event the request ends: no
\* further LLM call is made, no tool runs, and the only event that follows
\* on the sink is the terminal stream_complete.
C21_LLMErrorEnds ==
    \A k \in StreamErrorIdx :
        /\ iterations = events[k].it
        /\ pc \notin {"loop", "tools"}
        /\ \A j \in (k + 1)..Len(events) : IsComplete(events[j])

\* C22: once the request's context is cancelled the run eventually sends
\* the terminal stream_complete and closes the sink.
C22_CancelUnwinds ==
    cancelled ~> (closed /\ \E k \in EvIdx : IsComplete(events[k]))

\* call i of the message under execution has failed: its name is unknown or
\* its Run returned an error
FailedCall(i) == pc = "tools" /\ i \in Idx /\ tres[i] \in {"err", "unknown"}

\* the iteration of the failed call i is over and the loop goes on: every
\* call of the message has its one result in the history, that of call i
\* carries the failure text, and no error event has been sent
FailureDelivered(i) ==
    /\ pc = "loop" /\ i \in Idx
    /\ Len(toolResults) = Len(calls)
    /\ \E k \in 1..Len(toolResults) : toolResults[k] = ResultMessage(i)
    /\ Len(messages) >= Len(toolResults)
    /\ SubSeq(messages, Len(messages) - Len(toolResults) + 1, Len(messages)) = toolResults
    /\ ~\E k \in EvIdx : events[k].type = "error"

\* C23: a tool call that failed (unknown name, or an error from the tool)
\* leads to one tool-role message with the failure text in the history, next
\* to the results of the other calls, with no error event, and the loop
\* goes on to its next iteration.
C23_ToolFailureLocal ==
    \A i \in 1..MaxCalls : FailedCall(i) ~> FailureDelivered(i)

\* the run produced a final answer: a token event is on the sink
HasFinalAnswer == FinalAnswerOf(events) # <<>>

\* C24: once POST /agent has answered, the response is a success carrying
\* the text of the token events whenever the run produced a final answer,
\* and an error status only when the run ended without one.
C24_HandlerAnswers ==
    (response # NoResponse) =>
        /\ HasFinalAnswer => (response.status = 200 /\ response.answer = FinalAnswerOf(events))
        /\ (response.status # 200) => ~HasFinalAnswer

\* positions of the events of one kind sent for the call at index ix, in any
\* iteration
IndexEvents(ix, type) == { k \in EvIdx : events[k].type = type /\ events[k].ix = ix }

\* the execute operation of call i has returned
ToolHasReturned(i) == pc = "tools" /\ i \in Idx /\ tool[i] = "returned"

\* every tool_start of index i has its tool_end and handleToolCalls is back
ToolEndSent(i) ==
    /\ pc # "tools"
    /\ Cardinality(IndexEvents(i, "tool_end")) = Cardinality(IndexEvents(i, "tool_start"))

\* C25: once the execute operation of a started tool has returned, its
\* output stream ends, tool_end follows its tool_start and handleToolCalls
\* returns.
C25_ToolEndFollows ==
    \A i \in 1..MaxCalls : ToolHasReturned(i) ~> ToolEndSent(i)

\* the executor of call i is blocked in the receive of its confirmation
Awaiting(i) == pc = "tools" /\ i \in Idx /\ epc[i] = "await"

\* C26: a cancellation of the request's context ends a confirmation wait by
\* itself, with no answer from the client and before the expiry: the
\* executor leaves the wait and its confirmation id leaves the broker.
C26_CancelEndsWait ==
    \A i \in 1..MaxCalls :
        (cancelled /\ Awaiting(i)) ~> (~Awaiting(i) /\ (i \in Idx => econf[i] \notin requests))

\* an iteration has ended and the loop is free to go on or to leave
BetweenIterations == pc \in {"loop", "after"}

\* no goroutine of an iteration is left: no stream producer, no executor,
\* no execute goroutine, no unread tool output
AllJoined ==
    /\ producers = 0
    /\ \A i \in Idx :
          /\ epc[i] = "done"
          /\ tool[i] \in {"idle", "returned"}
          /\ pending[i] = 0

C27_JoinedInv == BetweenIterations => AllJoined

\* handleToolCalls hands over one result per call, and all of them are
\* appended to the history when the iteration ends
C27_JoinedStep ==
    (pc = "tools" /\ pc' # "tools") =>
        /\ Len(toolResults) = Len(calls)
        /\ messages' = messages \o toolResults

\* C27: when an iteration has ended, on the error paths as well, every
\* goroutine created for it has finished and the results of all its tool
\* calls are in the history.
C27_IterationJoins == []C27_JoinedInv /\ [][C27_JoinedStep]_vars

\* a caller hands a new task to the store in this step
HandsTask == nextTask' = nextTask + 1

\* the task handed over in this step has run when the call returns: it has
\* changed the memory, once, and a message it added to a session has its
\* line in the session log
RanInline ==
    /\ Cardinality({ k \in 1..Len(applied') : applied'[k] = nextTask' }) = 1
    /\ \A id \in SessIds :
          (\E k \in 1..Len(sessions'[id].msgs) : sessions'[id].msgs[k].id = nextTask')
              => \E k \in 1..Len(logs'[id]) : Parses(logs'[id][k]) /\ logs'[id][k].id = nextTask'

\* no task has changed the memory twice
AppliedOnce ==
    \A i \in 1..Len(applied), j \in 1..Len(applied) : i # j => applied[i] # applied[j]

C28_FullQueueStep ==
    (HandsTask /\ ~QueueHasRoom) => (RanInline /\ fb' = fb)

\* C28: a mutation that finds the write queue full runs once, on the
\* caller's goroutine, and has completed when the mutating call returns;
\* no task runs twice.
C28_FullQueueInline == []AppliedOnce /\ [][C28_FullQueueStep]_vars

C29_LateStep ==
    (HandsTask /\ memClosed) => RanInline

\* once the writer has exited nothing is left in the write queue
C29_LateInv == (wpc = "exited") => writeQueue = <<>>

\* C29: a mutation issued after Close was called runs inline on the caller,
\* so that its effect is in memory (and in the session log) when the call
\* returns, and it is never left unexecuted in the write queue.
C29_LateInline == []C29_LateInv /\ [][C29_LateStep]_vars

\* runTasks returns in this step, in a store that is open
BatchFinished == flushing = 1 /\ flushing' = 0 /\ boots' = boots /\ ~memClosed

\* the tick branch of the writer ends in this step, in a store that is open
TickFinished == wpc = "tickp" /\ wpc' = "select" /\ ~memClosed

C30_FlushStep ==
    ((BatchFinished \/ TickFinished) /\ applied' # <<>>) => memFile' = FullFile(Snapshot')

\* C30: each time the writer finishes a batch, on the tick or after
\* batch-size tasks, and some task has been executed, memory.json reflects
\* every task executed so far.
C30_BatchPersisted == [][C30_FlushStep]_vars

\* ------------------------------------------------------------------ the parts on their own
\* everything of a request but its prompt and its position
requestVars ==
    <<maxIterations, msg, storeVars, hostVars, iterations, lastToolCallHash, messages, session,
      notes, closed, events, execVars, brokerVars>>

\* no request is under way
RequestOff ==
    /\ maxIterations = 0
    /\ iterations = 0
    /\ lastToolCallHash = EmptyHash
    /\ messages = <<>>
    /\ session = <<>>
    /\ notes = <<>>
    /\ events = <<>>
    /\ closed = FALSE
    /\ msg = NoReply
    /\ calls = <<>>
    /\ epc = <<>>
    /\ econf = <<>>
    /\ tool = <<>>
    /\ tres = <<>>
    /\ pending = <<>>
    /\ ended = <<>>
    /\ nout = <<>>
    /\ ran = {}
    /\ toolResults = <<>>
    /\ requests = {}
    /\ chans = <<>>
    /\ fault = "none"
    /\ StoreOff
    /\ HostIdle

\* ---- validateToolCall on any tool call and any outcome of its LLM call
InitValidate ==
    /\ prompt \in Prompts
    /\ pc = "validate"
    /\ RequestOff
    /\ PartsIdle

\* one call of Agent.validateToolCall
Validate(tc, reply) ==
    /\ pc = "validate"
    /\ validation' = Validated(prompt, tc, reply)
    /\ UNCHANGED <<prompt, pc, requestVars, templates, tools, metadata, turn, forwarding, cancelFunc, runs>>

NextValidate == \E tc \in ToolCall, reply \in ValidatorReplies : Validate(tc, reply)

SpecValidate == InitValidate /\ [][NextValidate]_vars

\* ---- requests of a process whose template files may be missing or broken
MaxIterationsPrompts == 2
TemplateStates == {"ok", "missing", "broken"}
InitPrompts == Idle /\ maxIterations = MaxIterationsPrompts

\* before the request, one template file is removed ("missing") or damaged
\* ("broken"); Render loads a template when it is first asked for
TemplateFault(name, st) ==
    /\ pc = "start"
    /\ \A n \in TemplateNames : templates[n] = "ok"
    /\ st # "ok"
    /\ templates' = [templates EXCEPT ![name] = st]
    /\ UNCHANGED <<prompt, pc, requestVars, validation, tools, metadata, turn, forwarding, cancelFunc, runs>>

NextPrompts ==
    \/ Next
    \/ \E name \in TemplateNames, st \in TemplateStates : TemplateFault(name, st)

SpecPrompts == InitPrompts /\ [][NextPrompts]_vars

\* ---- the tool registry, from an empty one
\* GetMetadata calls made on the registry under check
MaxListings == 2

InitRegistry ==
    /\ prompt = S_tell
    /\ pc = "registry"
    /\ RequestOff
    /\ validation = NoValidation
    /\ templates = [n \in TemplateNames |-> "ok"]
    /\ tools = <<>>
    /\ metadata = <<>>
    /\ turn = 1
    /\ forwarding = TRUE
    /\ cancelFunc = 0
    /\ runs = <<>>

\* the names in the map
Names(reg) == { reg[k] : k \in DOMAIN reg }

\* ToolRegistry.Register: r.tools[t.Name()] = t; a new key takes the next
\* free slot of the map, a known key keeps its slot
Register(name) ==
    /\ pc = "registry"
    /\ tools' = IF name \in Names(tools) THEN tools ELSE Append(tools, name)
    /\ UNCHANGED <<prompt, pc, requestVars, validation, templates, metadata, turn, forwarding, cancelFunc, runs>>

\* `for _, t := range r.tools`: Go starts the iteration of a map at a slot
\* it picks at random and goes round from there
Ranged(reg, start) ==
    [k \in DOMAIN reg |-> reg[((start + k - 2) % Len(reg)) + 1]]

\* ToolRegistry.GetMetadata: one descriptor per entry, in iteration order
GetMetadata(start) ==
    /\ pc = "registry"
    /\ Len(metadata) < MaxListings
    /\ start \in DOMAIN tools \/ (tools = <<>> /\ start = 1)
    /\ metadata' = Append(metadata, [of |-> tools, list |-> Ranged(tools, start)])
    /\ UNCHANGED <<prompt, pc, requestVars, validation, templates, tools, turn, forwarding, cancelFunc, runs>>

NextRegistry ==
    \/ \E name \in Registered : Register(name)
    \/ \E start \in 1..Cardinality(Registered) : GetMetadata(start)

SpecRegistry == InitRegistry /\ [][NextRegistry]_vars

\* ---- the turns of a session
\* requests on one session, one after the other, by an agent configured with
\* max_iterations = 1
MaxTurns == 2

InitTurns == Idle /\ maxIterations = 1

\* the orders in which some of the tasks in left can have run: the writer runs the
\* queued ones in queue order, but a task that found the write queue full
\* runs in a goroutine of its own (enqueueWrite's default branch) and can
\* append its message before an earlier one that is still queued
RECURSIVE Arrangements(_)
Arrangements(left) ==
    {<<>>} \cup UNION { { <<k>> \o rest : rest \in Arrangements(left \ {k}) } : k \in left }

\* what GetSessionMessages can return of the messages handed to
\* AddMessageToSession, a copy of the list in memory.  A message is missing
\* from it when the call was refused because the session was not yet in the
\* map, while its task has not run, and after a restart when its line was not
\* written, does not parse, lies behind a long line or before the last
\* sessionLoadLimit ones; the messages it holds are in the order in which
\* their tasks ran.
Held(q) == { [k \in DOMAIN f |-> q[f[k]]] : f \in Arrangements(1..Len(q)) }

\* prepareSessionAndMessages for a later request on the session of the
\* request before, once that one is over: history is what
\* GetSessionMessages returns
NextTurn ==
    /\ pc = "closed" /\ turn < MaxTurns
    /\ \E history \in Held(session) :
          messages' = Append(IF Len(history) = 0
                             THEN <<Msg("system", GetSystemPrompt, "", <<>>)>>
                             ELSE history,
                             Msg("user", "prompt", "", <<>>))
    /\ turn' = turn + 1
    /\ session' = Append(session, Msg("user", "prompt", "", <<>>))
    /\ pc' = "loop"
    /\ iterations' = 0
    /\ lastToolCallHash' = EmptyHash
    /\ events' = <<>>
    /\ closed' = FALSE
    /\ calls' = <<>> /\ epc' = <<>> /\ econf' = <<>> /\ tool' = <<>> /\ tres' = <<>>
    /\ pending' = <<>> /\ ended' = <<>> /\ nout' = <<>> /\ ran' = {} /\ toolResults' = <<>>
    /\ cancelled' = FALSE
    /\ response' = NoResponse
    /\ UNCHANGED <<prompt, maxIterations, msg, storeVars, producers, notes, brokerVars,
                   validation, templates, tools, metadata, forwarding, cancelFunc, runs>>

NextTurns ==
    \/ Prepare
    \/ NextTurn
    \/ StreamThinking
    \/ \E cause \in LLMFailures, rest \in BOOLEAN : StreamError(cause, rest)
    \/ \E c \in {"", "answer"} : StreamText(c)
    \/ \E tcs \in CallLists(MaxCalls) : StreamToolCalls(tcs)
    \/ IterLLMError
    \/ IterAnswerThinking
    \/ IterToken
    \/ IterText
    \/ IterValidating
    \/ \E reply \in ValidatorReplies : IterValidate(reply)
    \/ IterRejected
    \/ IterDispatch
    \/ \E i \in Idx : ExecStep(i)
    \/ IterCollect
    \/ EmitIterationLimit
    \/ DeferComplete
    \/ CloseSink
    \/ \E id \in 0..MaxRequests, a \in BOOLEAN : Resolve(id, a)
    \/ \E id \in 1..Len(chans) : Expire(id)

SpecTurns == InitTurns /\ [][NextTurns]_vars

\* ---- a run started by handlePromptWS
\* The sink handlePromptWS makes is unbuffered: a send of the run completes
\* only while handlePromptWS is in its range loop.  The agent is configured
\* with max_iterations = 1.
InitWS == Idle /\ maxIterations = 1

\* SafeWriteJSON(event) fails for an event handlePromptWS received:
\* handlePromptWS leaves its loop and returns; its deferred
\* SetCancelFunc(nil) drops the cancel function without calling it
WriteFails ==
    /\ forwarding
    /\ events # <<>> /\ ~closed
    /\ forwarding' = FALSE
    /\ UNCHANGED <<prompt, pc, requestVars, validation, templates, tools, metadata, turn, cancelFunc, runs>>

\* the steps of the run and of its goroutines
RunStepWS ==
    \/ Prepare
    \/ StreamThinking
    \/ \E cause \in LLMFailures, rest \in BOOLEAN : StreamError(cause, rest)
    \/ \E c \in {"", "answer"} : StreamText(c)
    \/ \E tcs \in CallLists(MaxCalls) : StreamToolCalls(tcs)
    \/ IterLLMError
    \/ IterAnswerThinking
    \/ IterToken
    \/ IterText
    \/ IterValidating
    \/ \E reply \in ValidatorReplies : IterValidate(reply)
    \/ IterRejected
    \/ IterDispatch
    \/ \E i \in Idx : ExecStep(i)
    \/ IterCollect
    \/ EmitIterationLimit
    \/ DeferComplete
    \/ CloseSink
    \/ \E id \in 1..Len(chans) : Expire(id)

\* `events <- ev` needs its receiver
SendsReceived == (events' # events) => forwarding

\* Cancel: the connection's context ends (WebSocketHandler returned) or a
\* stop message called the cancel function while it was still set
NextWS ==
    \/ Prepare /\ SendsReceived
    \/ StreamThinking /\ SendsReceived
    \/ \E cause \in LLMFailures, rest \in BOOLEAN : StreamError(cause, rest) /\ SendsReceived
    \/ \E c \in {"", "answer"} : StreamText(c) /\ SendsReceived
    \/ \E tcs \in CallLists(MaxCalls) : StreamToolCalls(tcs) /\ SendsReceived
    \/ IterLLMError /\ SendsReceived
    \/ IterAnswerThinking /\ SendsReceived
    \/ IterToken /\ SendsReceived
    \/ IterText /\ SendsReceived
    \/ IterValidating /\ SendsReceived
    \/ \E reply \in ValidatorReplies : IterValidate(reply) /\ SendsReceived
    \/ IterRejected /\ SendsReceived
    \/ IterDispatch /\ SendsReceived
    \/ \E i \in Idx : ExecStep(i) /\ SendsReceived
    \/ IterCollect /\ SendsReceived
    \/ EmitIterationLimit /\ SendsReceived
    \/ DeferComplete /\ SendsReceived
    \/ CloseSink /\ SendsReceived
    \/ \E id \in 1..Len(chans) : Expire(id) /\ SendsReceived
    \/ \E id \in 0..MaxRequests, a \in BOOLEAN : Resolve(id, a)
    \/ WriteFails
    \/ Cancel

SpecWS == InitWS /\ [][NextWS]_vars

\* every goroutine of the run that can take a step eventually takes it, and
\* every expiry timer fires
FairWS == InitWS /\ [][NextWS]_vars /\ WF_vars(RunStepWS /\ SendsReceived)

\* ---- the Client of a WebSocket connection
\* prompt messages read on the connection under check
MaxPrompts == 3

InitClient ==
    /\ prompt = S_tell
    /\ pc = "client"
    /\ RequestOff
    /\ PartsIdle

\* a handlePromptWS goroutine: st is "new" (spawned), "streaming" (its
\* cancel function set, its run started) or "done" (returned); cancelled:
\* its context has been cancelled; stopped: a stop message was read while
\* it was streaming
NewRun == [st |-> "new", cancelled |-> FALSE, stopped |-> FALSE]

\* WebSocketHandler reads a prompt message: go handlePromptWS(...)
PromptMessage ==
    /\ pc = "client"
    /\ Len(runs) < MaxPrompts
    /\ runs' = Append(runs, NewRun)
    /\ UNCHANGED <<prompt, pc, requestVars, validation, templates, tools, metadata, turn, forwarding, cancelFunc>>

\* Client.SetCancelFunc
SetCancelFunc(cancel) == cancelFunc' = cancel

\* handlePromptWS: context.WithCancel, client.SetCancelFunc(cancel), and
\* the run is started
HandlePromptStart(r) ==
    /\ pc = "client"
    /\ r \in DOMAIN runs /\ runs[r].st = "new"
    /\ SetCancelFunc(r)
    /\ runs' = [runs EXCEPT ![r].st = "streaming"]
    /\ UNCHANGED <<prompt, pc, requestVars, validation, templates, tools, metadata, turn, forwarding>>

\* handlePromptWS returns once the sink of its run is closed: the deferred
\* client.SetCancelFunc(nil)
HandlePromptEnd(r) ==
    /\ pc = "client"
    /\ r \in DOMAIN runs /\ runs[r].st = "streaming"
    /\ SetCancelFunc(0)
    /\ runs' = [runs EXCEPT ![r].st = "done"]
    /\ UNCHANGED <<prompt, pc, requestVars, validation, templates, tools, metadata, turn, forwarding>>

\* Client.Cancel: the function that is set is called and dropped
ClientCancel(rs) ==
    IF cancelFunc # 0
    THEN [rs EXCEPT ![cancelFunc].cancelled = TRUE]
    ELSE rs

\* WebSocketHandler reads a stop message: client.Cancel()
StopMessage ==
    /\ pc = "client"
    /\ runs' = [r \in DOMAIN runs |->
                  [ClientCancel(runs)[r] EXCEPT !.stopped = @ \/ runs[r].st = "streaming"]]
    /\ cancelFunc' = 0
    /\ UNCHANGED <<prompt, pc, requestVars, validation, templates, tools, metadata, turn, forwarding>>

NextClient ==
    \/ PromptMessage
    \/ \E r \in 1..MaxPrompts : HandlePromptStart(r)
    \/ \E r \in 1..MaxPrompts : HandlePromptEnd(r)
    \/ StopMessage

SpecClient == InitClient /\ [][NextClient]_vars

\* ------------------------------------------------------------------ claims C31..C40
\* ---- C31
\* positions, among the events after a step, of the events of one kind that
\* the iteration under way has sent
IterationSent(type) ==
    { k \in 1..Len(events') : events'[k].it = iterations /\ events'[k].type = type }

\* a step in which an iteration ends on a reply without tool calls: the
\* loop is left and no error event was sent
TextIterationEnds ==
    /\ pc \in {"reply", "record"} /\ pc' = "after"
    /\ IterationSent("error") = {}

\* C31: an iteration whose stream yields no tool call sends a thinking
\* event and exactly one token event, which carries the accumulated text
\* (also when the text is empty), records that text as a note and as an
\* assistant message of the session, and no further LLM call is made
\* afterwards.
C31_TextStep ==
    /\ TextIterationEnds =>
         /\ IterationSent("thinking") # {}
         /\ Cardinality(IterationSent("token")) = 1
         /\ Len(notes') = Len(notes) + 1
         /\ \A k \in IterationSent("token") : events'[k].info = notes'[Len(notes')]
         /\ session' = Append(session, Msg("assistant", notes'[Len(notes')], "", <<>>))
    /\ pc \in {"after", "defer", "closing", "closed"} => iterations' = iterations
C31_TextOnlyIteration == [][C31_TextStep]_vars


\* ---- C32
\* the validation LLM call gave a response with a choice
ResponseObtained(reply) == reply.render /\ ~reply.err /\ reply.choices > 0

\* the replies of the validation LLM that say yes
Affirmatives == {A_yes, A_shi}

\* C32: the validation LLM is consulted only for a tool call the heuristic
\* stage accepted, and such a call is rejected exactly when a response was
\* obtained and its text is no affirmative: a template that cannot be
\* rendered, an error of the call and a response without choices all accept.
C32_FailOpen ==
    validation.done =>
        /\ validation.consulted => isReasonableToolCall(prompt, validation.tc)
        /\ isReasonableToolCall(prompt, validation.tc) =>
              (~validation.accepted <=>
                  (ResponseObtained(validation.reply) /\ validation.reply.answer \notin Affirmatives))

\* an accepted tool call whose validation LLM call returned an error
C32_Witness ==
    /\ validation.done /\ validation.consulted
    /\ validation.reply.err
    /\ validation.accepted

\* ---- C33
\* C33: the system message and every user message of the working history
\* has a non-empty content, whatever template is missing or broken: the
\* redirects after a validation rejection and after a duplicate tool call
\* carry a text, and so does the system prompt.
C33_PromptFallbacks ==
    \A k \in DOMAIN messages :
        messages[k].role \in {"system", "user"} => messages[k].content # ""

\* ---- C34
\* C34: GetMetadata returns one descriptor for each registered name, and
\* two calls on the same registrations return the same list.
C34_MetadataOrder ==
    /\ \A i \in DOMAIN metadata :
          /\ Len(metadata[i].list) = Cardinality(Names(metadata[i].of))
          /\ Names(metadata[i].list) = Names(metadata[i].of)
    /\ \A i, j \in DOMAIN metadata :
          metadata[i].of = metadata[j].of => metadata[i].list = metadata[j].list

\* ---- C35
\* a tool the prompt does not ask for: its name is absent from the keyword
\* mapping or none of its keywords occurs in the prompt
Uncalled(p, name) ==
    \/ name \notin KeywordTools
    \/ \A kw \in Keywords(name) : ~Contains(ToLower(p), kw)

\* C35: no call at position 2 or later of an assistant message is executed
\* when its tool is absent from the keyword mapping or none of its keywords
\* occurs in the prompt.
C35_EveryCallValidated ==
    \A r \in ran : r[2] >= 2 => ~Uncalled(prompt, r[3])

\* ---- C36
\* the assistant messages whose tool calls were executed: the only ones with
\* tool calls that are handed to the session
Executed == SelectSeq(session, LAMBDA m : m.role = "assistant" /\ m.toolCalls # <<>>)

\* a step that starts the tools of an iteration
StartsTools == pc = "validated" /\ pc' = "tools"

\* C36: the retained hash changes only in a step that starts the tools of an
\* iteration, so a rejected or redirected iteration leaves it as it was; and
\* the first call of the tools that are started differs from the first call
\* of the tools executed last, however many iterations lie in between.
C36_HashStep ==
    /\ lastToolCallHash' # lastToolCallHash => StartsTools
    /\ (StartsTools /\ Executed # <<>>) =>
          calls'[1] # Executed[Len(Executed)].toolCalls[1]
C36_HashRetained == [][C36_HashStep]_vars

\* tools were executed, the next iteration was rejected by validation, and
\* the one after it was redirected as a duplicate
C36_Witness ==
    /\ pc = "loop" /\ iterations = 3
    /\ lastToolCallHash # EmptyHash
    /\ messages[Len(messages)].content = "duplicate_tool_call"
    /\ \E j, k \in DOMAIN messages :
          j < k /\ messages[j].role = "tool" /\ messages[k].content = "force_text_response"

\* ---- C37
\* a step in which _runIteration makes its LLM streaming call
StreamCall == iterations' = iterations + 1

\* C37: the message list of every LLM streaming call starts with a system
\* message, on the first turn of a session and on the later ones.
C37_SystemFirstStep ==
    StreamCall => (messages # <<>> /\ messages[1].role = "system")
C37_SystemFirst == [][C37_SystemFirstStep]_vars

\* ---- C38
\* prepareSessionAndMessages hands the user message of a request that named
\* a session the store does not have
UnknownSessionAppend ==
    /\ rpc = "given" /\ rpc' = "appended"
    /\ ~sessions[rsid].present

\* C38: the user message of a request that named a session the store does
\* not have is accepted by the store, the session having been created for
\* it (prepareSessionAndMessages has no way to report a failure); the
\* request does not go on with a message the store refused.
C38_UnknownSessionStep ==
    UnknownSessionAppend => (rok' /\ ret'.val)
C38_UnknownSessionKept == [][C38_UnknownSessionStep]_vars

\* ---- C39
\* C39: once handlePromptWS has stopped forwarding, the run it started
\* still comes to its end: the sink is eventually closed.
C39_RunEndsAfterWriteError == (~forwarding) ~> closed

\* ---- C40
\* C40: a stop message cancels every run of the connection that is under
\* way when it is read, whether one or several runs are under way and
\* whether or not another run of the connection has ended before.
C40_StopCancelsAll ==
    \A r \in DOMAIN runs : runs[r].stopped => runs[r].cancelled

====
